---- MODULE Spec2Model ----
(***************************************************************************)
(* Verification model of the polygraph audio graph (AquaEBM/Mythril).      *)
(*                                                                         *)
(* Two drafts of the graph live in the repository and both are modelled:   *)
(*   - polygraph/src/graph.rs: the key-based graph (NodeID / PortID maps)  *)
(*     with its scheduler and buffer allocator          (variables nodes,  *)
(*     last, cres, seen; specifications Spec and SpecCompile);             *)
(*   - polygraph/src/audio_graph{.rs,/io.rs}: the index-based graph with a *)
(*     Global node and a vector of processors  (variables io, ioLast;      *)
(*     specification SpecIO).                                              *)
(*                                                                         *)
(* graph.rs stores every edge on the port it starts from ("forward" port)  *)
(* and names the port it ends on ("backward" port).  The scheduler of      *)
(* graph.rs reads the forward ports of the stored graph as the INPUTS of a *)
(* node (compile, graph.rs:330-339, after with_reversed_io_layout), so a   *)
(* stored edge (n, f) -> (m, b) carries the signal of output b of node m   *)
(* into input f of node n.                                                 *)
(*                                                                         *)
(* Further down: the lender of shared assets (src/lender.rs, specification *)
(* SpecLender) and move_state of the wavetable oscillator (mythril_osc,    *)
(* specification SpecMove); both keep their state in io and ioLast.        *)
(***************************************************************************)
EXTENDS Integers, Sequences, FiniteSets, TLC

VARIABLES nodes, last, cres, seen, io, ioLast

vars == <<nodes, last, cres, seen, io, ioLast>>

(***************************************************************************)
(* Bounds of the model.                                                    *)
(***************************************************************************)
MaxNodes == 3
MaxPorts == 2
MaxEdges == 3

NodeIDs == 0 .. (MaxNodes - 1)
PortIDs == 0 .. (MaxPorts - 1)

\* usize::MAX marks an output port without connection (graph.rs:348).  Only
\* its being larger than every buffer count matters; it is narrowed to the
\* largest integer TLC represents.
UsizeMax == 2147483647

None == "None"

(***************************************************************************)
(* Generic helpers for hash maps and iteration orders.                     *)
(***************************************************************************)
EmptyMap == [x \in {} |-> {}]

MapPut(m, k, v) == [x \in (DOMAIN m) \cup {k} |-> IF x = k THEN v ELSE m[x]]

MapDel(m, k) == [x \in (DOMAIN m) \ {k} |-> m[x]]

Range(s) == {s[i] : i \in DOMAIN s}

\* Every order in which a hash map or hash set may yield the elements of S.
Orders(S) ==
    {s \in [1 .. Cardinality(S) -> S] : \A x \in S : \E i \in DOMAIN s : s[i] = x}

(***************************************************************************)
(* graph.rs: Port                                                          *)
(***************************************************************************)
\* Port(FnvHashMap<NodeID, FnvHashSet<PortID>>): a function from the nodes a
\* port is connected to, to the set of ports it reaches on each of them.
PortDefault == EmptyMap

\* Faulty variant of insert_port: reports every insertion as new.
insert_port_AlwaysNew(port, node_index, port_index) ==
    IF node_index \in DOMAIN port
    THEN [port |-> MapPut(port, node_index, port[node_index] \cup {port_index}),
          new  |-> TRUE]
    ELSE [port |-> MapPut(port, node_index, {port_index}),
          new  |-> TRUE]

insert_port(port, node_index, port_index) ==
    IF node_index \in DOMAIN port
    THEN [port |-> MapPut(port, node_index, port[node_index] \cup {port_index}),
          new  |-> port_index \notin port[node_index]]
    ELSE [port |-> MapPut(port, node_index, {port_index}),
          new  |-> TRUE]

remove_port(port, node_index, port_index) ==
    LET present == node_index \in DOMAIN port
        tmp     == present /\ port_index \in port[node_index]
        empty   == present /\ (port[node_index] \ {port_index}) = {}
        shrunk  == IF present
                   THEN MapPut(port, node_index, port[node_index] \ {port_index})
                   ELSE port
    IN  [port    |-> IF empty THEN MapDel(shrunk, node_index) ELSE shrunk,
         removed |-> tmp]

\* The (node, port) pairs a port is connected to.
PortPairs(port) == UNION {{<<n, p>> : p \in port[n]} : n \in DOMAIN port}

(***************************************************************************)
(* graph.rs: Node                                                          *)
(***************************************************************************)
NodeNew(backward_port_ids, forward_port_ids) ==
    [backward_port_ids |-> backward_port_ids,
     forward_ports     |-> [id \in forward_port_ids |-> PortDefault]]

with_reversed_io_layout(node) ==
    NodeNew(DOMAIN node.forward_ports, node.backward_port_ids)

add_backward_port(node, id) ==
    IF id \in node.backward_port_ids
    THEN [node |-> node, res |-> "Err"]
    ELSE [node |-> [node EXCEPT !.backward_port_ids = @ \cup {id}], res |-> "Ok"]

\* add_forward_port looks the port up and never inserts it: a vacant entry is
\* handed back as Err(id).
add_forward_port(node, id) ==
    IF id \in DOMAIN node.forward_ports
    THEN [node |-> node, res |-> "Ok"]
    ELSE [node |-> node, res |-> "Err"]

(***************************************************************************)
(* graph.rs: AudioGraph<NodeID, PortID>                                    *)
(***************************************************************************)
GraphDefault == EmptyMap

try_insert_node(g, id, node) ==
    IF id \in DOMAIN g
    THEN [g |-> g, ok |-> FALSE]
    ELSE [g |-> MapPut(g, id, node), ok |-> TRUE]

\* The first id that is not a key of the node map.
FirstFreeId(g) == CHOOSE i \in 0 .. Cardinality(DOMAIN g) :
                     /\ i \notin DOMAIN g
                     /\ \A j \in 0 .. (i - 1) : j \in DOMAIN g

\* The latency of a node is carried along and read by nothing in graph.rs;
\* it is left out.
insert_node_id(g, backward_port_ids, forward_port_ids) ==
    LET i == FirstFreeId(g)
    IN  [g  |-> try_insert_node(g, i, NodeNew(backward_port_ids, forward_port_ids)).g,
         id |-> i]

RECURSIVE is_connected(_, _, _)
\* Faulty variant of is_connected: looks one edge ahead and no further.
is_connected_OneStep(g, from, to) ==
    \/ from = to
    \/ \E id \in DOMAIN g[from].forward_ports : to \in DOMAIN g[from].forward_ports[id]

\* Faulty variant of is_connected: follows the edges without comparing the
\* node it starts from.
RECURSIVE is_connected_NoSelf(_, _, _)
is_connected_NoSelf(g, from, to) ==
    \E id \in DOMAIN g[from].forward_ports :
       \E node \in DOMAIN g[from].forward_ports[id] :
          node = to \/ is_connected_NoSelf(g, node, to)

is_connected(g, from, to) ==
    IF from = to
    THEN TRUE
    ELSE \E id \in DOMAIN g[from].forward_ports :
            \E node \in DOMAIN g[from].forward_ports[id] :
                is_connected(g, node, to)

\* Faulty variant of try_insert_edge: does not look for the backward port.
try_insert_edge_NoBackwardCheck(g, from, to) ==
    IF \/ from[1] \notin DOMAIN g
       \/ from[2] \notin DOMAIN g[from[1]].forward_ports
       \/ to[1] \notin DOMAIN g
    THEN [g |-> g, res |-> "Err(false)"]
    ELSE IF is_connected(g, to[1], from[1])
    THEN [g |-> g, res |-> "Err(true)"]
    ELSE LET r == insert_port(g[from[1]].forward_ports[from[2]], to[1], to[2])
         IN  [g   |-> [g EXCEPT ![from[1]].forward_ports[from[2]] = r.port],
              res |-> IF r.new THEN "Ok(true)" ELSE "Ok(false)"]

\* Result<bool, bool>: Err(false) reports a missing port, Err(true) a cycle.
try_insert_edge(g, from, to) ==
    IF \/ from[1] \notin DOMAIN g
       \/ from[2] \notin DOMAIN g[from[1]].forward_ports
       \/ to[1] \notin DOMAIN g
       \/ to[2] \notin g[to[1]].backward_port_ids
    THEN [g |-> g, res |-> "Err(false)"]
    ELSE IF is_connected(g, to[1], from[1])
    THEN [g |-> g, res |-> "Err(true)"]
    ELSE LET r == insert_port(g[from[1]].forward_ports[from[2]], to[1], to[2])
         IN  [g   |-> [g EXCEPT ![from[1]].forward_ports[from[2]] = r.port],
              res |-> IF r.new THEN "Ok(true)" ELSE "Ok(false)"]

\* The stored edges, as 4-tuples (from node, from port, to node, to port).
Edges(g) ==
    UNION {UNION {{<<n, f, pr[1], pr[2]>> : pr \in PortPairs(g[n].forward_ports[f])}
                  : f \in DOMAIN g[n].forward_ports}
           : n \in DOMAIN g}


(***************************************************************************)
(* graph.rs: transposition and processing order (scheduler)                *)
(*                                                                         *)
(* A traversal state d is [tr, processed, panic]: the graph under          *)
(* construction (Scheduler::transposed), the nodes registered so far       *)
(* (Scheduler::process_order) and whether an unwrap/assert has failed.     *)
(* Hash maps are visited in arbitrary order, so each function returns the  *)
(* SET of states the traversal may end in.                                 *)
(***************************************************************************)
\* The items the two nested loops of insert_opposite_ports (graph.rs:441,444)
\* visit, in every order the maps may yield them: pairs (port id, node).
RECURSIVE ConnectionOrders(_, _)
ConnectionOrders(node, port_order) ==
    IF port_order = <<>>
    THEN {<<>>}
    ELSE LET id == Head(port_order)
         IN  {[i \in 1 .. Len(o) |-> <<id, o[i]>>] \o rest :
                 o \in Orders(DOMAIN node.forward_ports[id]),
                 rest \in ConnectionOrders(node, Tail(port_order))}

\* graph.rs:447-472: register (node_index, id) on every port of node_idx that
\* the port id of node_index is connected to.
InsertTransposedPorts(d, g, node_index, id, node_idx) ==
    IF d.panic THEN d
    ELSE IF node_idx \notin DOMAIN g THEN [d EXCEPT !.panic = TRUE]
    ELSE
    LET tr1 == IF node_idx \in DOMAIN d.tr
               THEN d.tr
               ELSE try_insert_node(d.tr, node_idx, with_reversed_io_layout(g[node_idx])).g
        fp  == tr1[node_idx].forward_ports
        P   == g[node_index].forward_ports[id][node_idx]
    IN  IF \E port_idx \in P :
              \/ port_idx \notin DOMAIN fp
              \/ ~ insert_port(fp[port_idx], node_index, id).new
        THEN [d EXCEPT !.panic = TRUE]
        ELSE [d EXCEPT !.tr =
                [tr1 EXCEPT ![node_idx].forward_ports =
                    [p \in DOMAIN fp |->
                        IF p \in P THEN insert_port(fp[p], node_index, id).port
                                   ELSE fp[p]]]]

RECURSIVE insert_opposite_ports(_, _, _)
RECURSIVE VisitConnections(_, _, _, _)

VisitConnections(D, g, node_index, items) ==
    IF items = <<>>
    THEN D
    ELSE LET id       == Head(items)[1]
             node_idx == Head(items)[2]
             after    == UNION {IF d.panic
                                THEN {d}
                                ELSE {InsertTransposedPorts(d1, g, node_index, id, node_idx) :
                                        d1 \in insert_opposite_ports(d, g, node_idx)}
                                : d \in D}
         IN  VisitConnections(after, g, node_index, Tail(items))

\* Faulty variant of insert_opposite_ports: visits a node again although it
\* is registered already.
insert_opposite_ports_Revisit(d, g, node_index) ==
    IF d.panic THEN {d}
    ELSE IF node_index \notin DOMAIN g THEN {[d EXCEPT !.panic = TRUE]}
    ELSE
    UNION {UNION {{IF d1.panic THEN d1
                   ELSE [d1 EXCEPT !.processed = Append(@, node_index)]
                   : d1 \in VisitConnections({d}, g, node_index, items)}
                  : items \in ConnectionOrders(g[node_index], port_order)}
           : port_order \in Orders(DOMAIN g[node_index].forward_ports)}

insert_opposite_ports(d, g, node_index) ==
    IF d.panic THEN {d}
    ELSE IF node_index \in Range(d.processed) THEN {d}
    ELSE IF node_index \notin DOMAIN g THEN {[d EXCEPT !.panic = TRUE]}
    ELSE
    UNION {UNION {{IF d1.panic THEN d1
                   ELSE [d1 EXCEPT !.processed = Append(@, node_index)]
                   : d1 \in VisitConnections({d}, g, node_index, items)}
                  : items \in ConnectionOrders(g[node_index], port_order)}
           : port_order \in Orders(DOMAIN g[node_index].forward_ports)}

RECURSIVE SchedulerRoots(_, _, _)
SchedulerRoots(D, g, root_order) ==
    IF root_order = <<>>
    THEN D
    ELSE LET node_idx == Head(root_order)
             after == UNION {
                IF d.panic THEN {d}
                ELSE IF node_idx \notin DOMAIN g THEN {[d EXCEPT !.panic = TRUE]}
                ELSE LET r == try_insert_node(d.tr, node_idx,
                                              with_reversed_io_layout(g[node_idx]))
                     IN  IF ~ r.ok THEN {[d EXCEPT !.panic = TRUE]}
                         ELSE insert_opposite_ports([d EXCEPT !.tr = r.g], g, node_idx)
                : d \in D}
         IN  SchedulerRoots(after, g, Tail(root_order))

\* Faulty variant of scheduler: starts from every node of the graph.
scheduler_AllNodes(g, root_nodes) ==
    UNION {SchedulerRoots({[tr |-> GraphDefault, processed |-> <<>>, panic |-> FALSE]},
                          g, root_order)
           : root_order \in Orders(root_nodes \cup DOMAIN g)}

scheduler(g, root_nodes) ==
    UNION {SchedulerRoots({[tr |-> GraphDefault, processed |-> <<>>, panic |-> FALSE]},
                          g, root_order)
           : root_order \in Orders(root_nodes)}


(***************************************************************************)
(* graph.rs: BufferAllocator                                               *)
(*                                                                         *)
(* buffers: the claims, a function from (node, port) to a buffer index;    *)
(* ports:   for every buffer (index i is element i + 1 of the sequence)    *)
(*          the set of (node, port) that still have to read it.            *)
(***************************************************************************)
BufferAllocatorDefault == [buffers |-> EmptyMap, ports |-> <<>>]

\* Faulty variant of get_empty_set_index: never hands out a freed buffer again.
get_empty_set_index_AlwaysPush(list) ==
    [list |-> Append(list, {}), i |-> Len(list)]

get_empty_set_index(list) ==
    IF \E i \in 1 .. Len(list) : list[i] = {}
    THEN [list |-> list,
          i    |-> (CHOOSE i \in 1 .. Len(list) :
                       /\ list[i] = {}
                       /\ \A j \in 1 .. (i - 1) : list[j] # {}) - 1]
    ELSE [list |-> Append(list, {}), i |-> Len(list)]

get_free(a) ==
    LET r == get_empty_set_index(a.ports)
    IN  [a |-> [a EXCEPT !.ports = r.list], i |-> r.i]

claim(a, buffer_index, ports) ==
    IF buffer_index >= Len(a.ports) \/ a.ports[buffer_index + 1] # {}
    THEN [a |-> a, extracted |-> {}, panic |-> TRUE]
    ELSE LET extracted == {port \in ports : port \in DOMAIN a.buffers}
             kept      == ports \ extracted
         IN  [a |-> [buffers |-> [port \in (DOMAIN a.buffers) \cup kept |->
                                     IF port \in kept THEN buffer_index
                                                      ELSE a.buffers[port]],
                     ports   |-> [a.ports EXCEPT ![buffer_index + 1] = kept]],
              extracted |-> extracted,
              panic     |-> FALSE]

remove_claim(a, port) ==
    IF port \notin DOMAIN a.buffers
    THEN [a |-> a, i |-> 0, panic |-> TRUE]
    ELSE LET i == a.buffers[port]
         IN  IF i >= Len(a.ports) \/ port \notin a.ports[i + 1]
             THEN [a |-> a, i |-> i, panic |-> TRUE]
             ELSE [a |-> [buffers |-> MapDel(a.buffers, port),
                          ports   |-> [a.ports EXCEPT ![i + 1] = @ \ {port}]],
                   i |-> i,
                   panic |-> FALSE]

(***************************************************************************)
(* graph.rs: Task and Scheduler::compile                                   *)
(*                                                                         *)
(* A compilation state c is [alloc, schedule, panic].                      *)
(***************************************************************************)
TaskNode(id, inputs, outputs) ==
    [type |-> "Node", id |-> id, inputs |-> inputs, outputs |-> outputs]

TaskSum(left, right, output) ==
    [type |-> "Sum", left |-> left, right |-> right, output |-> output]

\* graph.rs:330-339: every input port of the node gives up its claim.  The
\* removals commute, so one order stands for all of them.
RECURSIVE RemoveInputClaims(_, _, _, _)
RemoveInputClaims(c, id, port_ids, inputs) ==
    IF c.panic \/ port_ids = {}
    THEN [c |-> c, inputs |-> inputs]
    ELSE LET port_id == CHOOSE x \in port_ids : \A y \in port_ids : x <= y
             r       == remove_claim(c.alloc, <<id, port_id>>)
         IN  IF r.panic
             THEN [c |-> [c EXCEPT !.panic = TRUE], inputs |-> inputs]
             ELSE RemoveInputClaims([c EXCEPT !.alloc = r.a], id,
                                    port_ids \ {port_id},
                                    MapPut(inputs, port_id, r.i))

\* graph.rs:341-354: a buffer index for every output port, in map order.
RECURSIVE AssignOutputs(_, _, _, _)
AssignOutputs(a, proc, port_order, outputs) ==
    IF port_order = <<>>
    THEN [a |-> a, outputs |-> outputs]
    ELSE LET id == Head(port_order)
         IN  IF DOMAIN proc.forward_ports[id] = {}
             THEN AssignOutputs(a, proc, Tail(port_order),
                                MapPut(outputs, id, UsizeMax))
             ELSE LET r == get_free(a)
                  IN  AssignOutputs(r.a, proc, Tail(port_order),
                                    MapPut(outputs, id, r.i))

RECURSIVE EmitSums(_, _, _)
\* Faulty variant of EmitSums: moves the claim to a new buffer and emits no
\* Sum task.
RECURSIVE EmitSums_NoTask(_, _, _)
EmitSums_NoTask(c, buf_index, port_order) ==
    IF c.panic \/ port_order = <<>>
    THEN c
    ELSE LET port_idx == Head(port_order)
             r1 == remove_claim(c.alloc, port_idx)
             r2 == get_free(r1.a)
             r3 == claim(r2.a, r2.i, {port_idx})
         IN  IF r1.panic \/ r3.panic \/ r3.extracted # {}
             THEN [c EXCEPT !.panic = TRUE]
             ELSE EmitSums_NoTask([c EXCEPT !.alloc = r3.a], buf_index, Tail(port_order))

\* graph.rs:381-394: a port that already holds a claim becomes a summation.
EmitSums(c, buf_index, port_order) ==
    IF c.panic \/ port_order = <<>>
    THEN c
    ELSE LET port_idx == Head(port_order)
             r1 == remove_claim(c.alloc, port_idx)
             r2 == get_free(r1.a)
             r3 == claim(r2.a, r2.i, {port_idx})
         IN  IF r1.panic \/ r3.panic \/ r3.extracted # {}
             THEN [c EXCEPT !.panic = TRUE]
             ELSE EmitSums([c EXCEPT !.alloc = r3.a,
                                     !.schedule = Append(@, TaskSum(buf_index, r1.i, r2.i))],
                           buf_index, Tail(port_order))

\* graph.rs:366-396: claim every assigned output buffer for the ports it feeds.
\* pairs is the zip of the values of outputs with the ports of the node, as
\* <<buffer index, port id>>, less the pairs whose index is usize::MAX.
RECURSIVE ClaimOutputs(_, _, _)
ClaimOutputs(C, proc, pairs) ==
    IF pairs = <<>>
    THEN C
    ELSE LET buf_index == Head(pairs)[1]
             id        == Head(pairs)[2]
             after ==
               IF buf_index = UsizeMax
               THEN C
               ELSE UNION {
                      IF c.panic THEN {c}
                      ELSE LET r == claim(c.alloc, buf_index,
                                          PortPairs(proc.forward_ports[id]))
                           IN  IF r.panic
                               THEN {[c EXCEPT !.panic = TRUE]}
                               ELSE {EmitSums([c EXCEPT !.alloc = r.a], buf_index, o) :
                                       o \in Orders(r.extracted)}
                      : c \in C}
         IN  ClaimOutputs(after, proc, Tail(pairs))

\* One iteration of the loop of compile (graph.rs:327-397), for node id.
\* outputs is a map of its own, collected from forward_ports: its values come
\* in an order (value_order) that need not be the order of forward_ports
\* (port_order) they are zipped with.
CompileNode(c, transposed, id) ==
    IF c.panic THEN {c}
    ELSE IF id \notin DOMAIN transposed THEN {[c EXCEPT !.panic = TRUE]}
    ELSE
    LET proc == transposed[id]
        ins  == RemoveInputClaims(c, id, proc.backward_port_ids, EmptyMap)
    IN  IF ins.c.panic THEN {ins.c}
        ELSE UNION {UNION {
               LET outs == AssignOutputs(ins.c.alloc, proc, port_order, EmptyMap)
                   c1   == [ins.c EXCEPT
                              !.alloc = outs.a,
                              !.schedule = Append(@, TaskNode(id, ins.inputs, outs.outputs))]
               IN  ClaimOutputs({c1}, proc,
                                [i \in 1 .. Len(port_order) |->
                                    <<outs.outputs[value_order[i]], port_order[i]>>])
               : value_order \in Orders(DOMAIN proc.forward_ports)}
               : port_order \in Orders(DOMAIN proc.forward_ports)}

RECURSIVE CompileOrder(_, _, _)
CompileOrder(C, transposed, process_order) ==
    IF process_order = <<>>
    THEN C
    ELSE CompileOrder(UNION {CompileNode(c, transposed, Head(process_order)) : c \in C},
                      transposed, Tail(process_order))

\* Faulty variant of Scheduler::compile: returns the last buffer index in
\* place of the number of buffers.
SchedulerCompile_LastIndex(d) ==
    {[panic       |-> c.panic,
      num_buffers |-> IF c.panic \/ Len(c.alloc.ports) = 0 THEN 0
                      ELSE Len(c.alloc.ports) - 1,
      schedule    |-> IF c.panic THEN <<>> ELSE c.schedule]
     : c \in CompileOrder({[alloc |-> BufferAllocatorDefault, schedule |-> <<>>,
                            panic |-> FALSE]},
                          d.tr, d.processed)}

\* Scheduler::compile: every (num_buffers, schedule) the scheduler d may yield.
SchedulerCompile(d) ==
    {[panic       |-> c.panic,
      num_buffers |-> IF c.panic THEN 0 ELSE Len(c.alloc.ports),
      schedule    |-> IF c.panic THEN <<>> ELSE c.schedule]
     : c \in CompileOrder({[alloc |-> BufferAllocatorDefault, schedule |-> <<>>,
                            panic |-> FALSE]},
                          d.tr, d.processed)}

\* AudioGraph::compile (graph.rs:509-514).
compile(g, root_nodes) ==
    UNION {IF d.panic
           THEN {[panic |-> TRUE, num_buffers |-> 0, schedule |-> <<>>]}
           ELSE SchedulerCompile(d)
           : d \in scheduler(g, root_nodes)}


(***************************************************************************)
(* Execution of a schedule (processor.rs, AudioGraphProcessor::process).   *)
(*                                                                         *)
(* A buffer holds a symbolic value [set, ok]: the set of output ports      *)
(* (node, port) whose signals have been added up in it, and whether it is  *)
(* a proper sum (no garbage term, no term twice).  Buffers are allocated   *)
(* uninitialised (buffer.rs, new_vfloat_buffer), so they start as garbage. *)
(* An execution state e is [bufs, seen, panic]; seen records, for every    *)
(* task, the values its node read from its input ports.                    *)
(***************************************************************************)
Garbage == [set |-> {}, ok |-> FALSE]

Signal(node, port) == [set |-> {<<node, port>>}, ok |-> TRUE]

Add(l, r) == [set |-> l.set \cup r.set,
              ok  |-> l.ok /\ r.ok /\ (l.set \cap r.set) = {}]

\* The node writes its output ports one after the other, in write_order.
RECURSIVE WriteOutputs(_, _, _, _)
WriteOutputs(bufs, id, outputs, write_order) ==
    IF write_order = <<>>
    THEN bufs
    ELSE LET port == Head(write_order)
         IN  WriteOutputs([bufs EXCEPT ![outputs[port]] = Signal(id, port)],
                          id, outputs, Tail(write_order))

RunTask(e, num_buffers, task) ==
    IF e.panic THEN {e}
    ELSE IF task.type = "Sum"
    THEN IF task.left >= num_buffers \/ task.right >= num_buffers
            \/ task.output >= num_buffers
         THEN {[e EXCEPT !.panic = TRUE]}
         ELSE {[e EXCEPT !.bufs[task.output] = Add(e.bufs[task.left], e.bufs[task.right]),
                         !.seen = Append(@, None)]}
    ELSE LET used == {p \in DOMAIN task.outputs : task.outputs[p] # UsizeMax}
         IN  IF \/ \E p \in DOMAIN task.inputs : task.inputs[p] >= num_buffers
                \/ \E p \in used : task.outputs[p] >= num_buffers
             THEN {[e EXCEPT !.panic = TRUE]}
             ELSE {[e EXCEPT
                      !.bufs = WriteOutputs(e.bufs, task.id, task.outputs, write_order),
                      !.seen = Append(@, [p \in DOMAIN task.inputs |->
                                             e.bufs[task.inputs[p]]])]
                   : write_order \in Orders(used)}

RECURSIVE RunSchedule(_, _, _)
RunSchedule(E, num_buffers, schedule) ==
    IF schedule = <<>>
    THEN E
    ELSE RunSchedule(UNION {RunTask(e, num_buffers, Head(schedule)) : e \in E},
                     num_buffers, Tail(schedule))

process(num_buffers, schedule) ==
    RunSchedule({[bufs  |-> [i \in 0 .. (num_buffers - 1) |-> Garbage],
                  seen  |-> <<>>,
                  panic |-> FALSE]},
                num_buffers, schedule)

(***************************************************************************)
(* The graph of graph.rs, built through its API.                           *)
(*                                                                         *)
(* Specification Spec follows the API calls and records in last the most   *)
(* recent call and what it returned.  Specification SpecCompile builds the *)
(* same graphs without recording the calls, compiles them for a set of     *)
(* root nodes and executes the schedule.  compile only reads the graph, so *)
(* every graph a later mutation could build is also built before           *)
(* compiling: the graph is mutated first.                                  *)
(***************************************************************************)
Ports == NodeIDs \X PortIDs

\* Port ids are handed out in sequence: a node holds the ids 0 .. k-1 on each
\* side, and at most MaxPorts ports in all.
PortSets == {0 .. (k - 1) : k \in 0 .. MaxPorts}

NumPorts(node) ==
    Cardinality(node.backward_port_ids) + Cardinality(DOMAIN node.forward_ports)

NoCall == [op |-> "new", res |-> None, from |-> None, to |-> None]

NoCompile == [roots |-> {}, panic |-> FALSE, num_buffers |-> 0, schedule |-> <<>>,
              done |-> FALSE]

NoRun == [seen |-> <<>>, panic |-> FALSE, done |-> FALSE]

IODummy == None

Init ==
    /\ nodes = GraphDefault
    /\ last = NoCall
    /\ cres = NoCompile
    /\ seen = NoRun
    /\ io = IODummy
    /\ ioLast = IODummy

\* The call and its result are recorded when track holds.
Record(track, op, res, from, to) ==
    last' = IF track THEN [op |-> op, res |-> res, from |-> from, to |-> to]
                     ELSE last

InsertNodeId(track) ==
    /\ ~ cres.done
    /\ Cardinality(DOMAIN nodes) < MaxNodes
    /\ \E backward_port_ids \in PortSets, forward_port_ids \in PortSets :
          /\ Cardinality(backward_port_ids) + Cardinality(forward_port_ids) <= MaxPorts
          /\ LET r == insert_node_id(nodes, backward_port_ids, forward_port_ids)
             IN  /\ nodes' = r.g
                 /\ Record(track, "insert_node_id", r.id, None, None)
    /\ UNCHANGED <<cres, seen, io, ioLast>>

AddBackwardPort(track) ==
    /\ ~ cres.done
    /\ \E n \in DOMAIN nodes, id \in PortIDs :
          /\ id <= Cardinality(nodes[n].backward_port_ids)
          /\ id \in nodes[n].backward_port_ids \/ NumPorts(nodes[n]) < MaxPorts
          /\ LET r == add_backward_port(nodes[n], id)
             IN  /\ nodes' = [nodes EXCEPT ![n] = r.node]
                 /\ Record(track, "add_backward_port", r.res, None, None)
    /\ UNCHANGED <<cres, seen, io, ioLast>>

AddForwardPort(track) ==
    /\ ~ cres.done
    /\ \E n \in DOMAIN nodes, id \in PortIDs :
          LET r == add_forward_port(nodes[n], id)
          IN  /\ nodes' = [nodes EXCEPT ![n] = r.node]
              /\ Record(track, "add_forward_port", r.res, None, None)
    /\ UNCHANGED <<cres, seen, io, ioLast>>

TryInsertEdge(track) ==
    /\ ~ cres.done
    /\ \E from \in Ports, to \in Ports :
          LET r == try_insert_edge(nodes, from, to)
          IN  /\ Cardinality(Edges(r.g)) <= MaxEdges
              /\ nodes' = r.g
              /\ Record(track, "try_insert_edge", r.res, from[1], to[1])
    /\ UNCHANGED <<cres, seen, io, ioLast>>

\* get_node_mut(n), get_forward_port_mut(f), then Port::remove_port.
RemovePort(track) ==
    /\ ~ cres.done
    /\ \E n \in DOMAIN nodes, to \in Ports :
          \E f \in DOMAIN nodes[n].forward_ports :
             LET r == remove_port(nodes[n].forward_ports[f], to[1], to[2])
             IN  /\ nodes' = [nodes EXCEPT ![n].forward_ports[f] = r.port]
                 /\ Record(track, "remove_port", r.removed, None, None)
    /\ UNCHANGED <<cres, seen, io, ioLast>>

Compile ==
    /\ ~ cres.done
    /\ \E root_nodes \in SUBSET NodeIDs :
          \E r \in compile(nodes, root_nodes) :
             cres' = [roots |-> root_nodes, panic |-> r.panic,
                      num_buffers |-> r.num_buffers, schedule |-> r.schedule,
                      done |-> TRUE]
    /\ UNCHANGED <<nodes, last, seen, io, ioLast>>

Process ==
    /\ cres.done
    /\ ~ cres.panic
    /\ ~ seen.done
    /\ \E e \in process(cres.num_buffers, cres.schedule) :
          seen' = [seen |-> e.seen, panic |-> e.panic, done |-> TRUE]
    /\ UNCHANGED <<nodes, last, cres, io, ioLast>>

Next ==
    \/ InsertNodeId(TRUE)
    \/ AddBackwardPort(TRUE)
    \/ AddForwardPort(TRUE)
    \/ TryInsertEdge(TRUE)
    \/ RemovePort(TRUE)

Spec == Init /\ [][Next]_vars

NextCompile ==
    \/ InsertNodeId(FALSE)
    \/ AddBackwardPort(FALSE)
    \/ TryInsertEdge(FALSE)
    \/ RemovePort(FALSE)
    \/ Compile
    \/ Process

SpecCompile == Init /\ [][NextCompile]_vars


(***************************************************************************)
(* The M-graph of graph/tests.rs (test_m_graph): three masters with one    *)
(* input port each and two sources with one output port each; source n1    *)
(* feeds masters 1 and 0, source n2 feeds masters 0 and 2.  Specification  *)
(* SpecMGraph builds it node by node and edge by edge, the edges in any    *)
(* order, compiles what has been built for any set of roots and executes   *)
(* the schedule.                                                           *)
(***************************************************************************)
MGraphMasters == 3
MGraphSources == 2

MGraphNodeIDs == 0 .. (MGraphMasters + MGraphSources - 1)

MGraphMasterIDs == 0 .. (MGraphMasters - 1)

\* (master, source) for every edge of the M-graph.
MGraphEdges == {<<1, 3>>, <<0, 3>>, <<0, 4>>, <<2, 4>>}

\* The masters are inserted first, then the sources.
MGraphInsertNode ==
    /\ ~ cres.done
    /\ Cardinality(DOMAIN nodes) < MGraphMasters + MGraphSources
    /\ LET r == IF FirstFreeId(nodes) \in MGraphMasterIDs
                THEN insert_node_id(nodes, {}, {0})
                ELSE insert_node_id(nodes, {0}, {})
       IN  nodes' = r.g
    /\ UNCHANGED <<last, cres, seen, io, ioLast>>

MGraphInsertEdge ==
    /\ ~ cres.done
    /\ DOMAIN nodes = MGraphNodeIDs
    /\ \E e \in MGraphEdges :
          nodes' = try_insert_edge(nodes, <<e[1], 0>>, <<e[2], 0>>).g
    /\ UNCHANGED <<last, cres, seen, io, ioLast>>

MGraphCompile ==
    /\ ~ cres.done
    /\ \E root_nodes \in SUBSET MGraphNodeIDs :
          \E r \in compile(nodes, root_nodes) :
             cres' = [roots |-> root_nodes, panic |-> r.panic,
                      num_buffers |-> r.num_buffers, schedule |-> r.schedule,
                      done |-> TRUE]
    /\ UNCHANGED <<nodes, last, seen, io, ioLast>>

NextMGraph ==
    \/ MGraphInsertNode
    \/ MGraphInsertEdge
    \/ MGraphCompile
    \/ Process

SpecMGraph == Init /\ [][NextMGraph]_vars


(***************************************************************************)
(* audio_graph.rs / audio_graph/io.rs: the index-based graph.              *)
(*                                                                         *)
(* AudioGraph keeps the graph transposed: every node stores, for each of   *)
(* its input ports, the output ports that feed it.  A node is the Global   *)
(* node or a processor named by its position in the vector processors.     *)
(***************************************************************************)
MaxProcessors == 3
MaxIoPorts == 1
MaxIoEdges == 3
GlobalInputs == 1
GlobalOutputs == 1

Global == <<"Global", 0>>

Processor(i) == <<"Processor", i>>

is_global(node_index) == node_index = Global

PortNew(index, node_index) == [index |-> index, node_index |-> node_index]

\* io.rs Ports(HashMap<NodeIndex, HashSet<usize>>)
io_insert_port(ports, port) ==
    IF port.node_index \in DOMAIN ports
    THEN [ports |-> MapPut(ports, port.node_index,
                           ports[port.node_index] \cup {port.index}),
          new   |-> port.index \notin ports[port.node_index]]
    ELSE [ports |-> MapPut(ports, port.node_index, {port.index}), new |-> TRUE]

\* A node entry that holds one index is dropped whole, whichever index is
\* asked for.
io_remove_port(ports, port) ==
    IF port.node_index \in DOMAIN ports
    THEN IF Cardinality(ports[port.node_index]) = 1
         THEN [ports |-> MapDel(ports, port.node_index), removed |-> TRUE]
         ELSE [ports   |-> MapPut(ports, port.node_index,
                                  ports[port.node_index] \ {port.index}),
               removed |-> port.index \in ports[port.node_index]]
    ELSE [ports |-> ports, removed |-> FALSE]

remove_all_ports_to_node(ports, node_index) == MapDel(ports, node_index)

iter_ports(ports) ==
    UNION {{PortNew(index, n) : index \in ports[n]} : n \in DOMAIN ports}

\* NodeIO { ports: Box<[Ports]>, num_opposite_ports }
with_io_config(num_ports, num_opposite_ports) ==
    [ports |-> [i \in 1 .. num_ports |-> EmptyMap],
     num_opposite_ports |-> num_opposite_ports]

\* Option<NodeIO>
SomeIO(node) == [some |-> TRUE, io |-> node]

NoneIO == [some |-> FALSE, io |-> with_io_config(0, 0)]

\* AudioGraphIO { processors: Vec<Option<NodeIO>>, global: NodeIO }
with_global_io_config(num_global_io_ports, num_opposite_global_io_ports) ==
    [processors |-> <<>>,
     global     |-> with_io_config(num_opposite_global_io_ports, num_global_io_ports)]

get_node(g, index) ==
    IF index = Global THEN SomeIO(g.global)
    ELSE IF index[2] < Len(g.processors) THEN g.processors[index[2] + 1]
    ELSE NoneIO

\* get_node(port.node_index).and_then(get_connections(port.index)).is_some()
has_connections(g, port) ==
    /\ get_node(g, port.node_index).some
    /\ port.index < Len(get_node(g, port.node_index).io.ports)

\* self[port] = value, for a port that has_connections.
set_connections(g, port, value) ==
    IF port.node_index = Global
    THEN [g EXCEPT !.global.ports[port.index + 1] = value]
    ELSE [g EXCEPT !.processors[port.node_index[2] + 1].io.ports[port.index + 1] = value]

\* The nodes the nested any() of connected (io.rs:165-169) visits: the ports
\* in vector order, the nodes of each port in every order its map may yield.
RECURSIVE NodeOrders(_, _)
NodeOrders(ports, i) ==
    IF i > Len(ports)
    THEN {<<>>}
    ELSE {o \o rest : o \in Orders(DOMAIN ports[i]), rest \in NodeOrders(ports, i + 1)}

\* An outcome of connected is [res, visited, panic]; self[from_node] panics
\* for a node that does not exist.
RECURSIVE connected(_, _, _, _)
RECURSIVE ConnectedAny(_, _, _, _)

ConnectedAny(g, items, to_node, r) ==
    IF items = <<>> \/ r.res \/ r.panic
    THEN {r}
    ELSE UNION {ConnectedAny(g, Tail(items), to_node, r1) :
                  r1 \in connected(g, Head(items), to_node, r.visited)}

connected(g, from_node, to_node, visited) ==
    IF from_node = to_node
    THEN {[res |-> TRUE, visited |-> visited, panic |-> FALSE]}
    ELSE IF from_node \in visited
    THEN {[res |-> FALSE, visited |-> visited, panic |-> FALSE]}
    ELSE IF ~ get_node(g, from_node).some
    THEN {[res |-> FALSE, visited |-> visited \cup {from_node}, panic |-> TRUE]}
    ELSE UNION {ConnectedAny(g, items, to_node,
                             [res |-> FALSE, visited |-> visited \cup {from_node},
                              panic |-> FALSE])
                : items \in NodeOrders(get_node(g, from_node).io.ports, 1)}

insert_processor(g, num_ports, num_opposite_ports) ==
    LET node == SomeIO(with_io_config(num_ports, num_opposite_ports))
    IN  IF \E i \in 1 .. Len(g.processors) : ~ g.processors[i].some
        THEN LET i == CHOOSE i \in 1 .. Len(g.processors) :
                         /\ ~ g.processors[i].some
                         /\ \A j \in 1 .. (i - 1) : g.processors[j].some
             IN  [g |-> [g EXCEPT !.processors[i] = node], index |-> i - 1]
        ELSE [g |-> [g EXCEPT !.processors = Append(@, node)],
              index |-> Len(g.processors)]

\* Vec::remove(index): panics when index is out of bounds, and moves every
\* later element one position down.
remove_processor(g, index) ==
    IF index >= Len(g.processors)
    THEN [g |-> g, res |-> FALSE, panic |-> TRUE]
    ELSE LET removed == g.processors[index + 1]
             shifted == [i \in 1 .. (Len(g.processors) - 1) |->
                            IF i <= index THEN g.processors[i]
                                          ELSE g.processors[i + 1]]
             cleared == [i \in 1 .. Len(shifted) |->
                            IF shifted[i].some
                            THEN SomeIO([shifted[i].io EXCEPT !.ports =
                                    [k \in 1 .. Len(@) |->
                                        remove_all_ports_to_node(@[k], Processor(index))]])
                            ELSE shifted[i]]
         IN  [g     |-> [g EXCEPT !.processors = IF removed.some THEN cleared
                                                                 ELSE shifted],
              res   |-> removed.some,
              panic |-> FALSE]

\* EdgeNotFound::is_not_error for the pair (from, to).
edge_found(g, from, to) ==
    /\ has_connections(g, from)
    /\ get_node(g, to.node_index).some
    /\ to.index < get_node(g, to.node_index).io.num_opposite_ports

connections(g, port) == get_node(g, port.node_index).io.ports[port.index + 1]

remove_edge(g, from, to) ==
    IF edge_found(g, from, to)
    THEN LET r == io_remove_port(connections(g, from), to)
         IN  [g   |-> set_connections(g, from, r.ports),
              res |-> IF r.removed THEN "Ok(true)" ELSE "Ok(false)"]
    ELSE [g |-> g, res |-> "NotFound"]

\* Every outcome [g, res] of insert_edge; res is "panic" when the search of
\* connected fails.
insert_edge(g, from, to) ==
    IF ~ edge_found(g, from, to)
    THEN {[g |-> g, res |-> "NotFound"]}
    ELSE LET r       == io_insert_port(connections(g, from), to)
             accept  == [g   |-> set_connections(g, from, r.ports),
                         res |-> IF r.new THEN "Ok(true)" ELSE "Ok(false)"]
         IN  IF is_global(from.node_index) \/ is_global(to.node_index)
             THEN {accept}
             ELSE {IF c.panic THEN [g |-> g, res |-> "panic"]
                   ELSE IF c.res THEN [g |-> g, res |-> "CycleFound"]
                   ELSE accept
                   : c \in connected(g, to.node_index, from.node_index, {})}

\* The references stored in the graph: <<holder, input index, Port>>.
IoEdges(g) ==
    UNION {{<<Global, k - 1, port>> : port \in iter_ports(g.global.ports[k])}
           : k \in 1 .. Len(g.global.ports)}
    \cup
    UNION {IF g.processors[i].some
           THEN UNION {{<<Processor(i - 1), k - 1, port>> :
                           port \in iter_ports(g.processors[i].io.ports[k])}
                       : k \in 1 .. Len(g.processors[i].io.ports)}
           ELSE {}
           : i \in 1 .. Len(g.processors)}

(***************************************************************************)
(* Specification SpecIO: the calls of AudioGraph (audio_graph.rs:136-174). *)
(* AudioGraph hands the two ends of an edge to its transposed graph in     *)
(* swapped order.  A panic ends the run.                                   *)
(***************************************************************************)
IoNodeIndices == {Global} \cup {Processor(i) : i \in 0 .. (MaxProcessors - 1)}

IoPorts == {PortNew(index, n) : index \in 0 .. (MaxIoPorts - 1), n \in IoNodeIndices}

InitIO ==
    /\ nodes = GraphDefault
    /\ last = NoCall
    /\ cres = NoCompile
    /\ seen = NoRun
    /\ io = with_global_io_config(GlobalInputs, GlobalOutputs)
    /\ ioLast = [op |-> "new", res |-> None, panic |-> FALSE]

IoInsertProcessor ==
    /\ ~ ioLast.panic
    /\ Len(io.processors) < MaxProcessors
    /\ \E num_inputs \in 0 .. MaxIoPorts, num_outputs \in 0 .. MaxIoPorts :
          LET r == insert_processor(io, num_inputs, num_outputs)
          IN  /\ io' = r.g
              /\ ioLast' = [op |-> "insert_processor", res |-> r.index,
                            panic |-> FALSE]
    /\ UNCHANGED <<nodes, last, cres, seen>>

IoInsertEdge ==
    /\ ~ ioLast.panic
    /\ \E from \in IoPorts, to \in IoPorts :
          \E r \in insert_edge(io, to, from) :
             /\ Cardinality(IoEdges(r.g)) <= MaxIoEdges
             /\ io' = r.g
             /\ ioLast' = [op |-> "insert_edge", res |-> r.res,
                           panic |-> r.res = "panic"]
    /\ UNCHANGED <<nodes, last, cres, seen>>

IoRemoveProcessor ==
    /\ ~ ioLast.panic
    /\ \E index \in 0 .. (MaxProcessors - 1) :
          LET r == remove_processor(io, index)
          IN  /\ io' = r.g
              /\ ioLast' = [op |-> "remove_processor", res |-> r.res,
                            panic |-> r.panic]
    /\ UNCHANGED <<nodes, last, cres, seen>>

IoRemoveEdge ==
    /\ ~ ioLast.panic
    /\ \E from \in IoPorts, to \in IoPorts :
          LET r == remove_edge(io, to, from)
          IN  /\ io' = r.g
              /\ ioLast' = [op |-> "remove_edge", res |-> r.res,
                            panic |-> FALSE]
    /\ UNCHANGED <<nodes, last, cres, seen>>

NextIO ==
    \/ IoInsertProcessor
    \/ IoInsertEdge
    \/ IoRemoveProcessor
    \/ IoRemoveEdge

SpecIO == InitIO /\ [][NextIO]_vars


(***************************************************************************)
(* buffer.rs / audio_graph/buffer_allocator.rs: buffer indices and the     *)
(* allocator of the index-based scheduler.                                 *)
(*                                                                         *)
(* A BufferIndex is SuperInput(i) or Output(b); an OutputBufferIndex b is  *)
(* Local(i) or Master(j) (the sources also spell the latter Super(j)).     *)
(* Output(b) is written b.  NoBuf is Option::None.                         *)
(***************************************************************************)
SuperInput(i) == <<"SuperInput", i>>

Local(i) == <<"Local", i>>

Master(i) == <<"Master", i>>

NoBuf == <<"None", 0>>

is_output(buf) == buf[1] \in {"Local", "Master"}

\* BufferAllocator { claims, ports, free_buffers, num_intermediate_buffers }
BufferAllocatorNew ==
    [claims |-> EmptyMap, ports |-> EmptyMap, free_buffers |-> {},
     num_intermediate_buffers |-> 0]

\* An outcome is [a, panic]: get_mut(&buf).unwrap() and the two assert!.
remove_reservation(a, buf, port) ==
    IF buf \notin DOMAIN a.ports
    THEN [a |-> a, panic |-> TRUE]
    ELSE LET r == io_remove_port(a.ports[buf], port)
         IN  IF ~ r.removed
             THEN [a |-> a, panic |-> TRUE]
             ELSE IF DOMAIN r.ports = {}
             THEN [a     |-> [a EXCEPT !.ports = MapDel(@, buf),
                                       !.free_buffers = @ \cup {buf}],
                   panic |-> buf \in a.free_buffers]
             ELSE [a |-> [a EXCEPT !.ports = MapPut(@, buf, r.ports)],
                   panic |-> FALSE]

try_remove_reservation(a, buf, port) ==
    IF is_output(buf) THEN remove_reservation(a, buf, port)
                      ELSE [a |-> a, panic |-> FALSE]

\* An outcome is [a, buf, panic]; buf is NoBuf when the port holds no claim.
free_buffer(a, port) ==
    IF port \in DOMAIN a.claims
    THEN LET buf == a.claims[port]
             r   == try_remove_reservation([a EXCEPT !.claims = MapDel(@, port)],
                                           buf, port)
         IN  [a |-> r.a, buf |-> buf, panic |-> r.panic]
    ELSE [a |-> a, buf |-> NoBuf, panic |-> FALSE]

\* Every outcome [a, buf, panic]: free_buffers.iter().next() yields whichever
\* free buffer the hash set holds first.
reserve_free_buffer(a, ports) ==
    IF DOMAIN ports = {}
    THEN {[a |-> a, buf |-> NoBuf, panic |-> FALSE]}
    ELSE IF a.free_buffers # {}
    THEN {[a     |-> [a EXCEPT !.free_buffers = @ \ {buf},
                               !.ports = MapPut(@, buf, ports)],
           buf   |-> buf,
           panic |-> buf \in DOMAIN a.ports]
          : buf \in a.free_buffers}
    ELSE LET buf == Local(a.num_intermediate_buffers)
         IN  {[a     |-> [a EXCEPT !.num_intermediate_buffers = @ + 1,
                                   !.ports = MapPut(@, buf, ports)],
               buf   |-> buf,
               panic |-> buf \in DOMAIN a.ports]}

\* Every outcome [a, sum, prev, new, panic]: sum holds when the port held the
\* claim prev before, and its claim is now the buffer new.
insert_claim(a, buffer, port) ==
    LET f == free_buffer(a, port)
    IN  IF f.panic
        THEN {[a |-> f.a, sum |-> FALSE, prev |-> NoBuf, new |-> NoBuf, panic |-> TRUE]}
        ELSE IF f.buf # NoBuf
        THEN LET t == try_remove_reservation(f.a, buffer, port)
             IN  IF t.panic
                 THEN {[a |-> t.a, sum |-> FALSE, prev |-> NoBuf, new |-> NoBuf,
                        panic |-> TRUE]}
                 ELSE {[a     |-> [r.a EXCEPT !.claims = MapPut(@, port, r.buf)],
                        sum   |-> TRUE,
                        prev  |-> f.buf,
                        new   |-> r.buf,
                        panic |-> r.panic]
                       : r \in reserve_free_buffer(t.a, io_insert_port(EmptyMap, port).ports)}
        ELSE {[a     |-> [f.a EXCEPT !.claims = MapPut(@, port, buffer)],
               sum   |-> FALSE, prev |-> NoBuf, new |-> NoBuf, panic |-> FALSE]}


(***************************************************************************)
(* audio_graph/scheduler.rs: the index-based scheduler.                    *)
(*                                                                         *)
(* Hash maps and hash sets are visited in arbitrary order, so every        *)
(* function returns the SET of outcomes the traversal may end in.          *)
(***************************************************************************)
\* The orders in which Ports::iter_ports (io.rs:19-25) may yield the ports:
\* node after node, and the indices of one node together.
RECURSIVE GroupOrders(_, _)
GroupOrders(ports, node_order) ==
    IF node_order = <<>>
    THEN {<<>>}
    ELSE LET n == Head(node_order)
         IN  {[k \in 1 .. Len(o) |-> PortNew(o[k], n)] \o rest :
                 o \in Orders(ports[n]),
                 rest \in GroupOrders(ports, Tail(node_order))}

iter_ports_orders(ports) ==
    UNION {GroupOrders(ports, node_order) : node_order \in Orders(DOMAIN ports)}

\* The pairs (input index, source port) the two nested loops of
\* insert_opposite_ports (io.rs:235-237) visit, from the i-th input on.
RECURSIVE IoItems(_, _)
IoItems(node, i) ==
    IF i > Len(node.ports)
    THEN {<<>>}
    ELSE {[k \in 1 .. Len(o) |-> <<i - 1, o[k]>>] \o rest :
             o \in iter_ports_orders(node.ports[i]),
             rest \in IoItems(node, i + 1)}

node_with_opposite_config(node) ==
    with_io_config(node.num_opposite_ports, Len(node.ports))

with_opposite_config(g) ==
    [processors |-> [i \in 1 .. Len(g.processors) |->
                        IF g.processors[i].some
                        THEN SomeIO(node_with_opposite_config(g.processors[i].io))
                        ELSE g.processors[i]],
     global     |-> node_with_opposite_config(g.global)]

opposite_port_indices(g, node_index) ==
    [k \in 1 .. get_node(g, node_index).io.num_opposite_ports |->
        PortNew(k - 1, node_index)]

\* A traversal state d is [outputs, registered, order, panic].  stack holds
\* the nodes whose visit has not returned: a source that is among them and
\* not registered is visited again and again, until the call stack is
\* exhausted and the program aborts.
RECURSIVE io_insert_opposite_ports(_, _, _, _)
RECURSIVE IoVisit(_, _, _, _, _)

IoVisit(D, inputs, node_index, items, stack) ==
    IF items = <<>>
    THEN D
    ELSE LET this_port == PortNew(Head(items)[1], node_index)
             port      == Head(items)[2]
             next_idx  == port.node_index
             Register(d) == [d EXCEPT !.registered = @ \cup {next_idx},
                                      !.order = Append(@, next_idx)]
             after == UNION {
                IF d.panic THEN {d}
                ELSE IF ~ has_connections(d.outputs, port)
                THEN {[d EXCEPT !.panic = TRUE]}
                ELSE LET d1 == [d EXCEPT !.outputs = set_connections(@, port,
                                   io_insert_port(connections(@, port), this_port).ports)]
                     IN  IF next_idx \in d1.registered THEN {d1}
                         ELSE IF is_global(next_idx) THEN {Register(d1)}
                         ELSE IF next_idx \in stack THEN {[d1 EXCEPT !.panic = TRUE]}
                         ELSE {IF d2.panic THEN d2 ELSE Register(d2)
                               : d2 \in io_insert_opposite_ports(d1, inputs, next_idx, stack)}
                : d \in D}
         IN  IoVisit(after, inputs, node_index, Tail(items), stack)

io_insert_opposite_ports(d, inputs, node_index, stack) ==
    IF d.panic THEN {d}
    ELSE IF ~ get_node(inputs, node_index).some THEN {[d EXCEPT !.panic = TRUE]}
    ELSE UNION {IoVisit({d}, inputs, node_index, items, stack \cup {node_index})
                : items \in IoItems(get_node(inputs, node_index).io, 1)}

\* Scheduler { outputs, process_schedule }: the field order is the schedule.
for_graph(graph) ==
    io_insert_opposite_ports([outputs    |-> with_opposite_config(graph),
                              registered |-> {},
                              order      |-> <<>>,
                              panic      |-> FALSE],
                             graph, Global, {})

\* ProcessTask (audio_graph.rs:51-66).  The outputs of CopyToMasterOutput are
\* collected from a hash set; they are kept as the set.
TaskProcess(index, inputs, outputs) ==
    [type |-> "Process", index |-> index, inputs |-> inputs, outputs |-> outputs]

IoTaskSum(left_input, right_input, output) ==
    [type |-> "Sum", left_input |-> left_input, right_input |-> right_input,
     output |-> output]

TaskCopyToMasterOutput(input, outputs) ==
    [type |-> "CopyToMasterOutput", input |-> input, outputs |-> outputs]

\* A compile state c is [alloc, schedule, panic].
\* scheduler.rs:38-42: the claims of the input ports are freed in index order.
RECURSIVE FreeInputs(_, _, _)
FreeInputs(c, ports, inputs) ==
    IF ports = <<>> \/ c.panic
    THEN [c |-> c, inputs |-> inputs]
    ELSE LET r == free_buffer(c.alloc, Head(ports))
         IN  FreeInputs([c EXCEPT !.alloc = r.a, !.panic = r.panic],
                        Tail(ports), Append(inputs, r.buf))

\* scheduler.rs:44-48: every output port with a reader is given a buffer.
RECURSIVE ReserveOutputs(_, _, _)
ReserveOutputs(c, ports, outputs) ==
    IF ports = <<>> \/ c.panic
    THEN {[c |-> c, outputs |-> outputs]}
    ELSE UNION {ReserveOutputs([c EXCEPT !.alloc = r.a, !.panic = r.panic],
                               Tail(ports), Append(outputs, r.buf))
                : r \in reserve_free_buffer(c.alloc, Head(ports))}

\* scheduler.rs:76-85: the readers of one output claim its buffer, in
\* port_order; a reader that holds a claim already gets a Sum task.
RECURSIVE InsertClaims(_, _, _)
InsertClaims(c, buffer, port_order) ==
    IF port_order = <<>> \/ c.panic
    THEN {c}
    ELSE UNION {InsertClaims(
                   [c EXCEPT !.alloc = r.a,
                             !.panic = r.panic,
                             !.schedule = IF r.sum
                                          THEN Append(@, IoTaskSum(buffer, r.prev, r.new))
                                          ELSE @],
                   buffer, Tail(port_order))
                : r \in insert_claim(c.alloc, buffer, Head(port_order))}

\* scheduler.rs:71-86, from the i-th output port on.
RECURSIVE ClaimOutputBuffers(_, _, _, _)
ClaimOutputBuffers(C, output_buffers, ports, i) ==
    IF i > Len(ports)
    THEN C
    ELSE ClaimOutputBuffers(
            IF output_buffers[i] = NoBuf
            THEN C
            ELSE UNION {UNION {InsertClaims(c, output_buffers[i], port_order)
                               : port_order \in iter_ports_orders(ports[i])}
                        : c \in C},
            output_buffers, ports, i + 1)

schedule(s, node_index, c) ==
    IF c.panic THEN {c}
    ELSE IF ~ get_node(s.outputs, node_index).some THEN {[c EXCEPT !.panic = TRUE]}
    ELSE
    LET ports == get_node(s.outputs, node_index).io.ports
    IN  IF is_global(node_index)
        THEN ClaimOutputBuffers({c},
                [i \in 1 .. Len(ports) |->
                    IF DOMAIN ports[i] # {} THEN SuperInput(i - 1) ELSE NoBuf],
                ports, 1)
        ELSE LET f == FreeInputs(c, opposite_port_indices(s.outputs, node_index), <<>>)
             IN  UNION {IF r.c.panic
                        THEN {r.c}
                        ELSE ClaimOutputBuffers(
                               {[r.c EXCEPT !.schedule =
                                    Append(@, TaskProcess(node_index[2], f.inputs,
                                                          r.outputs))]},
                               r.outputs, ports, 1)
                        : r \in ReserveOutputs(f.c, ports, <<>>)}

RECURSIVE ScheduleAll(_, _, _)
ScheduleAll(C, s, order) ==
    IF order = <<>>
    THEN C
    ELSE ScheduleAll(UNION {schedule(s, Head(order), c) : c \in C}, s, Tail(order))


\* audio_graph.rs:84-128.  buffer_replacements maps the index of a local
\* buffer to the index of the master output that takes its place.
\* Faulty variant of replace_with_master: the local indices are not shifted.
replace_with_master_NoShift(buf, buffer_replacements) ==
    IF buf[1] # "Local" THEN buf
    ELSE IF buf[2] \in DOMAIN buffer_replacements
    THEN Master(buffer_replacements[buf[2]])
    ELSE buf

replace_with_master(buf, buffer_replacements) ==
    IF buf[1] # "Local" THEN buf
    ELSE IF buf[2] \in DOMAIN buffer_replacements
    THEN Master(buffer_replacements[buf[2]])
    ELSE Local(buf[2] - Cardinality({i \in DOMAIN buffer_replacements : buf[2] > i}))

replace_and_shift_output_buffers(task, buffer_replacements) ==
    IF task.type = "Sum"
    THEN IoTaskSum(replace_with_master(task.left_input, buffer_replacements),
                   replace_with_master(task.right_input, buffer_replacements),
                   replace_with_master(task.output, buffer_replacements))
    ELSE IF task.type = "Process"
    THEN TaskProcess(task.index,
                     [k \in DOMAIN task.inputs |->
                         replace_with_master(task.inputs[k], buffer_replacements)],
                     [k \in DOMAIN task.outputs |->
                         replace_with_master(task.outputs[k], buffer_replacements)])
    ELSE task

\* scheduler.rs:100-126: the claims of the master outputs, in index order.
\* A state is [alloc, panic, buffer_replacements, buffer_copies].
RECURSIVE MasterClaims(_, _)
MasterClaims(m, ports) ==
    IF ports = <<>> \/ m.panic
    THEN m
    ELSE LET port          == Head(ports)
             this_port_idx == port.index
             r             == free_buffer(m.alloc, port)
             m1            == [m EXCEPT !.alloc = r.a, !.panic = r.panic]
             AddCopy(key)  == [m1 EXCEPT !.buffer_copies =
                                 MapPut(@, key, (IF key \in DOMAIN @ THEN @[key] ELSE {})
                                                \cup {this_port_idx})]
         IN  MasterClaims(
                IF r.panic \/ r.buf = NoBuf THEN m1
                ELSE IF r.buf[1] = "SuperInput" THEN AddCopy(r.buf)
                ELSE IF r.buf[1] = "Local"
                THEN IF r.buf[2] \in DOMAIN m1.buffer_replacements
                     THEN AddCopy(Master(m1.buffer_replacements[r.buf[2]]))
                     ELSE [m1 EXCEPT !.buffer_replacements =
                             MapPut(@, r.buf[2], this_port_idx)]
                ELSE [m1 EXCEPT !.panic = TRUE],
                Tail(ports))

\* An outcome of compile is [schedule, num_buffers, panic] and, kept for the
\* properties, the schedule before the rewrite (raw), the number of buffers
\* the allocator handed out (allocated), the claims the allocator held before
\* those of the master outputs were freed (claims) and buffer_replacements.
IoCompilePanic ==
    [schedule |-> <<>>, num_buffers |-> 0, panic |-> TRUE, raw |-> <<>>,
     allocated |-> 0, claims |-> EmptyMap, buffer_replacements |-> EmptyMap]

SchedulerCompileIo(s) ==
    UNION {
      IF c.panic
      THEN {IoCompilePanic}
      ELSE LET m == MasterClaims([alloc |-> c.alloc, panic |-> FALSE,
                                  buffer_replacements |-> EmptyMap,
                                  buffer_copies |-> EmptyMap],
                                 opposite_port_indices(s.outputs, Global))
               replaced == [k \in 1 .. Len(c.schedule) |->
                              replace_and_shift_output_buffers(c.schedule[k],
                                                               m.buffer_replacements)]
           IN  IF m.panic
               THEN {IoCompilePanic}
               ELSE {[schedule  |-> replaced \o
                                    [k \in 1 .. Len(copy_order) |->
                                        TaskCopyToMasterOutput(copy_order[k],
                                            m.buffer_copies[copy_order[k]])],
                      num_buffers |-> c.alloc.num_intermediate_buffers
                                      - Cardinality(DOMAIN m.buffer_replacements),
                      panic     |-> FALSE,
                      raw       |-> c.schedule,
                      allocated |-> c.alloc.num_intermediate_buffers,
                      claims    |-> c.alloc.claims,
                      buffer_replacements |-> m.buffer_replacements]
                     : copy_order \in Orders(DOMAIN m.buffer_copies)}
      : c \in ScheduleAll({[alloc |-> BufferAllocatorNew, schedule |-> <<>>,
                            panic |-> FALSE]},
                          s, s.order)}

\* AudioGraph::compile (audio_graph.rs:163-165)
io_compile(graph) ==
    UNION {IF s.panic
           THEN {IoCompilePanic}
           ELSE SchedulerCompileIo(s)
           : s \in for_graph(graph)}


(***************************************************************************)
(* processor.rs: AudioGraphProcessor executes the compiled schedule.       *)
(*                                                                         *)
(* A buffer holds a value [set, ok] as above.  The handle of process()     *)
(* reaches the buffers of the caller (one per global input and one per     *)
(* global output) and the local pool; bufs maps every buffer index that    *)
(* can be reached to the value it holds.  An execution state e is          *)
(* [pc, bufs, reads, trace, panic, done]: pc tasks have been executed,     *)
(* trace lists them in the order of their execution, and reads holds, for  *)
(* each of them, the values its processor found on its inputs.             *)
(***************************************************************************)
Silence == [set |-> {}, ok |-> TRUE]

\* Faulty variant of NewBuffers: the local pool is left empty.
NewBuffers_NoPool(num_inputs, num_outputs, num_buffers) ==
    [b \in {SuperInput(i) : i \in 0 .. (num_inputs - 1)}
           \cup {Master(j) : j \in 0 .. (num_outputs - 1)}
       |-> IF b[1] = "SuperInput" THEN Signal(Global, b[2]) ELSE Garbage]

\* schedule_for (processor.rs:248-258) allocates num_buffers buffers; the
\* caller's output buffers hold whatever the caller left in them.
NewBuffers(num_inputs, num_outputs, num_buffers) ==
    [b \in {SuperInput(i) : i \in 0 .. (num_inputs - 1)}
           \cup {Master(j) : j \in 0 .. (num_outputs - 1)}
           \cup {Local(k) : k \in 0 .. (num_buffers - 1)}
       |-> IF b[1] = "SuperInput" THEN Signal(Global, b[2]) ELSE Garbage]

\* Faulty variant of CopyInto: nothing is copied.
CopyInto_NoCopy(e, input, outputs) == e

\* processor.rs:309-318: the input is copied into the outputs one by one.
RECURSIVE CopyInto(_, _, _)
CopyInto(e, input, outputs) ==
    IF outputs = {} \/ e.panic
    THEN e
    ELSE LET j == CHOOSE j \in outputs : TRUE
         IN  CopyInto(IF Master(j) \in DOMAIN e.bufs
                      THEN [e EXCEPT !.bufs[Master(j)] = e.bufs[input]]
                      ELSE [e EXCEPT !.panic = TRUE],
                      input, outputs \ {j})

\* One turn of the loop of process (processor.rs:288-336): the task is
\* executed whole.  A lookup of a buffer that does not exist panics, and so
\* does a Process task whose processor is absent; the graph processor holds
\* an instance for every processor of the graph.
RunIoTask(e, task) ==
    LET next == [e EXCEPT !.pc = @ + 1, !.trace = Append(@, task)]
    IN  IF task.type = "Sum"
        THEN IF {task.left_input, task.right_input, task.output} \subseteq DOMAIN e.bufs
             THEN [next EXCEPT !.bufs[task.output] =
                                  Add(e.bufs[task.left_input], e.bufs[task.right_input]),
                               !.reads = Append(@, <<>>)]
             ELSE [e EXCEPT !.panic = TRUE]
        ELSE IF task.type = "CopyToMasterOutput"
        THEN IF task.input \in DOMAIN e.bufs
             THEN CopyInto([next EXCEPT !.reads = Append(@, <<>>)],
                           task.input, task.outputs)
             ELSE [e EXCEPT !.panic = TRUE]
        ELSE LET used(list) == {list[k] : k \in DOMAIN list} \ {NoBuf}
             IN  IF /\ (used(task.inputs) \cup used(task.outputs)) \subseteq DOMAIN e.bufs
                    /\ get_node(io, Processor(task.index)).some
                 THEN [next EXCEPT
                         !.bufs = [b \in DOMAIN e.bufs |->
                                     IF \E k \in DOMAIN task.outputs : task.outputs[k] = b
                                     THEN Signal(Processor(task.index),
                                                 (CHOOSE k \in DOMAIN task.outputs :
                                                     task.outputs[k] = b) - 1)
                                     ELSE e.bufs[b]],
                         !.reads = Append(@, [k \in DOMAIN task.inputs |->
                                                IF task.inputs[k] = NoBuf
                                                THEN Silence
                                                ELSE e.bufs[task.inputs[k]]])]
                 ELSE [e EXCEPT !.panic = TRUE]

(***************************************************************************)
(* Specification SpecSchedule: a graph is built with insert_processor and  *)
(* insert_edge, compiled by schedule_for, and the schedule is executed by  *)
(* one call of process, task by task.  Every processor of the graph has    *)
(* its instance in the graph processor, and the caller hands in one buffer *)
(* per global port.                                                        *)
(***************************************************************************)
SchedProcessors == 2
SchedPorts == 2
SchedEdges == 3
SchedGlobalInputs == 1
SchedGlobalOutputs == 2

SchedNodeIndices == {Global} \cup {Processor(i) : i \in 0 .. (SchedProcessors - 1)}

SchedPortsOf ==
    {PortNew(index, n) : index \in 0 .. (SchedGlobalOutputs - 1), n \in SchedNodeIndices}

NoIoCompile ==
    [schedule |-> <<>>, num_buffers |-> 0, panic |-> FALSE, raw |-> <<>>,
     allocated |-> 0, claims |-> EmptyMap, buffer_replacements |-> EmptyMap,
     done |-> FALSE]

NoIoRun ==
    [pc |-> 0, bufs |-> EmptyMap, reads |-> <<>>, trace |-> <<>>, panic |-> FALSE,
     done |-> FALSE]

InitSchedule ==
    /\ nodes = GraphDefault
    /\ last = NoCall
    /\ cres = NoIoCompile
    /\ seen = NoIoRun
    /\ io = with_global_io_config(SchedGlobalInputs, SchedGlobalOutputs)
    /\ ioLast = [op |-> "new", res |-> None, panic |-> FALSE]

SchedInsertProcessor ==
    /\ ~ cres.done
    /\ Len(io.processors) < SchedProcessors
    /\ \E num_inputs \in 0 .. SchedPorts, num_outputs \in 0 .. SchedPorts :
          LET r == insert_processor(io, num_inputs, num_outputs)
          IN  /\ io' = r.g
              /\ ioLast' = [op |-> "insert_processor", res |-> r.index,
                            panic |-> FALSE]
    /\ UNCHANGED <<nodes, last, cres, seen>>

SchedInsertEdge ==
    /\ ~ cres.done
    /\ \E from \in SchedPortsOf, to \in SchedPortsOf :
          \E r \in insert_edge(io, to, from) :
             /\ Cardinality(IoEdges(r.g)) <= SchedEdges
             /\ io' = r.g
             /\ ioLast' = [op |-> "insert_edge", res |-> r.res,
                           panic |-> r.res = "panic"]
    /\ UNCHANGED <<nodes, last, cres, seen>>

ScheduleFor ==
    /\ ~ cres.done
    /\ \E r \in io_compile(io) :
          /\ cres' = [schedule |-> r.schedule, num_buffers |-> r.num_buffers,
                      panic |-> r.panic, raw |-> r.raw, allocated |-> r.allocated,
                      claims |-> r.claims, buffer_replacements |-> r.buffer_replacements, done |-> TRUE]
          /\ seen' = [NoIoRun EXCEPT !.bufs =
                        NewBuffers(io.global.num_opposite_ports, Len(io.global.ports),
                                   r.num_buffers)]
    /\ UNCHANGED <<nodes, last, io, ioLast>>

ProcessTaskStep ==
    /\ cres.done
    /\ ~ cres.panic
    /\ ~ seen.panic
    /\ seen.pc < Len(cres.schedule)
    /\ seen' = RunIoTask(seen, cres.schedule[seen.pc + 1])
    /\ UNCHANGED <<nodes, last, cres, io, ioLast>>

ProcessReturn ==
    /\ cres.done
    /\ ~ cres.panic
    /\ ~ seen.panic
    /\ ~ seen.done
    /\ seen.pc = Len(cres.schedule)
    /\ seen' = [seen EXCEPT !.done = TRUE]
    /\ UNCHANGED <<nodes, last, cres, io, ioLast>>

NextSchedule ==
    \/ SchedInsertProcessor
    \/ SchedInsertEdge
    \/ ScheduleFor
    \/ ProcessTaskStep
    \/ ProcessReturn

SpecSchedule == InitSchedule /\ [][NextSchedule]_vars


(***************************************************************************)
(* buffer.rs: the buffer dispatcher.                                       *)
(*                                                                         *)
(* A BufferIO holds the maps inputs and outputs from port indices to       *)
(* buffer indices and a node (Buffers): the pool of this level and,        *)
(* optionally, the BufferIO of the caller.  A chain of handles is the      *)
(* sequence h of its levels [inputs, outputs, pool], outermost first:      *)
(* h[1] has no parent, the parent of h[d] is h[d - 1], and pool is the     *)
(* number of buffers of the level.  Slot i of the pool of level d is the   *)
(* buffer <<d, i>>.                                                        *)
(***************************************************************************)
DispOk(buf) == [kind |-> "Ok", buf |-> buf]

\* kind is "OOB", "Empty" (PortError), "Previous" (BufferNodeIndexError) or
\* "Panic".
DispErr(kind) == [kind |-> kind, buf |-> <<0, 0>>]

RECURSIVE input_buf(_, _, _)
RECURSIVE output_buf(_, _, _)
RECURSIVE get_handle(_, _, _)

\* Buffers::get_handle (buffer.rs:194-202); the result is Ok or "Previous"
\* for Option::None.
get_handle(h, d, i) ==
    IF i[1] = "SuperInput"
    THEN IF d = 1 THEN DispErr("Previous")
         ELSE LET r == input_buf(h, d - 1, i[2])
              IN  IF r.kind = "Ok" THEN r ELSE DispErr("Previous")
    ELSE IF i[1] = "Master"
    THEN IF d = 1 THEN DispErr("Previous")
         ELSE LET r == output_buf(h, d - 1, i[2])
              IN  IF r.kind = "Ok" THEN r ELSE DispErr("Previous")
    ELSE IF i[2] < h[d].pool THEN DispOk(<<d, i[2]>>)
    ELSE DispErr("Previous")

\* buffer.rs:289-296
input_buf(h, d, i) ==
    IF i >= Len(h[d].inputs) THEN DispErr("OOB")
    ELSE IF h[d].inputs[i + 1] = NoBuf THEN DispErr("Empty")
    ELSE get_handle(h, d, h[d].inputs[i + 1])

\* buffer.rs:298-304
output_buf(h, d, i) ==
    IF i >= Len(h[d].outputs) THEN DispErr("OOB")
    ELSE IF h[d].outputs[i + 1] = NoBuf THEN DispErr("Empty")
    ELSE get_handle(h, d, h[d].outputs[i + 1])

\* MAP_ERR (buffer.rs:308-309): e.try_into().expect(ERR_MSG) panics for
\* BufferNodeIndexError::Previous.
MAP_ERR(r) == IF r.kind = "Previous" THEN DispErr("Panic") ELSE r

\* BufferIO::input_shared and BufferIO::output_shared of the innermost handle.
input_shared(h, i) == MAP_ERR(input_buf(h, Len(h), i))

output_shared(h, i) == MAP_ERR(output_buf(h, Len(h), i))

(***************************************************************************)
(* Specification SpecDispatch: a chain of handles, as toplevel, with_io    *)
(* and append build it from maps and pools the caller chooses, and lookups *)
(* through the innermost handle.                                           *)
(***************************************************************************)
DispDepth == 2
DispPorts == 1
DispIndex == 1
DispPool == 1

DispInputIndices ==
    {NoBuf} \cup UNION {{SuperInput(i), Local(i), Master(i)} : i \in 0 .. DispIndex}

DispOutputIndices ==
    {NoBuf} \cup UNION {{Local(i), Master(i)} : i \in 0 .. DispIndex}

DispMaps(S) == UNION {[1 .. n -> S] : n \in 0 .. DispPorts}

DispLevels ==
    [inputs : DispMaps(DispInputIndices), outputs : DispMaps(DispOutputIndices),
     pool : 0 .. DispPool]

InitDispatch ==
    /\ nodes = GraphDefault
    /\ last = NoCall
    /\ cres = NoCompile
    /\ seen = NoRun
    /\ io \in UNION {[1 .. d -> DispLevels] : d \in 1 .. DispDepth}
    /\ ioLast = [op |-> "new", k |-> 0, res |-> DispErr("None")]

DispInput ==
    /\ \E k \in 0 .. DispPorts :
          ioLast' = [op |-> "input", k |-> k, res |-> input_shared(io, k)]
    /\ UNCHANGED <<nodes, last, cres, seen, io>>

DispOutput ==
    /\ \E k \in 0 .. DispPorts :
          ioLast' = [op |-> "output", k |-> k, res |-> output_shared(io, k)]
    /\ UNCHANGED <<nodes, last, cres, seen, io>>

NextDispatch ==
    \/ DispInput
    \/ DispOutput

SpecDispatch == InitDispatch /\ [][NextDispatch]_vars


(***************************************************************************)
(* Specification SpecEdges: edges of the index-based graph are inserted    *)
(* and removed through AudioGraph (audio_graph.rs:147-157) between nodes   *)
(* that have up to EdgePorts ports on a side.  ioLast records the call,    *)
(* its edge, its result and the graph it was applied to.                   *)
(***************************************************************************)
EdgeProcessors == 2
EdgePorts == 2
EdgeEdges == 2

EdgeNodeIndices == {Global} \cup {Processor(i) : i \in 0 .. (EdgeProcessors - 1)}

EdgePortsOf ==
    {PortNew(index, n) : index \in 0 .. (EdgePorts - 1), n \in EdgeNodeIndices}

InitEdges ==
    /\ nodes = GraphDefault
    /\ last = NoCall
    /\ cres = NoCompile
    /\ seen = NoRun
    /\ io = with_global_io_config(GlobalInputs, GlobalOutputs)
    /\ ioLast = [op |-> "new", res |-> None, from |-> PortNew(0, Global),
                 to |-> PortNew(0, Global), before |-> io]

EdgesInsertProcessor ==
    /\ Len(io.processors) < EdgeProcessors
    /\ \E num_inputs \in 0 .. EdgePorts, num_outputs \in 0 .. EdgePorts :
          LET r == insert_processor(io, num_inputs, num_outputs)
          IN  /\ io' = r.g
              /\ ioLast' = [op |-> "insert_processor", res |-> None,
                            from |-> PortNew(0, Global), to |-> PortNew(0, Global),
                            before |-> io]
    /\ UNCHANGED <<nodes, last, cres, seen>>

EdgesInsertEdge ==
    /\ \E from \in EdgePortsOf, to \in EdgePortsOf :
          \E r \in insert_edge(io, to, from) :
             /\ r.res # "panic"
             /\ Cardinality(IoEdges(r.g)) <= EdgeEdges
             /\ io' = r.g
             /\ ioLast' = [op |-> "insert_edge", res |-> r.res, from |-> from,
                           to |-> to, before |-> io]
    /\ UNCHANGED <<nodes, last, cres, seen>>

EdgesRemoveEdge ==
    /\ \E from \in EdgePortsOf, to \in EdgePortsOf :
          LET r == remove_edge(io, to, from)
          IN  /\ io' = r.g
              /\ ioLast' = [op |-> "remove_edge", res |-> r.res, from |-> from,
                            to |-> to, before |-> io]
    /\ UNCHANGED <<nodes, last, cres, seen>>

NextEdges ==
    \/ EdgesInsertProcessor
    \/ EdgesInsertEdge
    \/ EdgesRemoveEdge

SpecEdges == InitEdges /\ [][NextEdges]_vars

(***************************************************************************)
(* Specification SpecIds: processors are inserted and removed and edges    *)
(* are drawn between them (audio_graph.rs:143-153).  Each call records the *)
(* graph it found and the index it was given.  A panic ends the run.       *)
(***************************************************************************)
IdProcessors == 3
IdPorts == 1
IdEdges == 2

IdNodeIndices == {Global} \cup {Processor(i) : i \in 0 .. (IdProcessors - 1)}

IdPortsOf == {PortNew(index, n) : index \in 0 .. (IdPorts - 1), n \in IdNodeIndices}

InitIds ==
    /\ nodes = GraphDefault
    /\ last = NoCall
    /\ cres = NoCompile
    /\ seen = NoRun
    /\ io = with_global_io_config(GlobalInputs, GlobalOutputs)
    /\ ioLast = [op |-> "new", res |-> None, index |-> 0, panic |-> FALSE,
                 before |-> io]

IdsInsertProcessor ==
    /\ ~ ioLast.panic
    /\ Len(io.processors) < IdProcessors
    /\ \E num_inputs \in 0 .. IdPorts, num_outputs \in 0 .. IdPorts :
          LET r == insert_processor(io, num_inputs, num_outputs)
          IN  /\ io' = r.g
              /\ ioLast' = [op |-> "insert_processor", res |-> r.index,
                            index |-> r.index, panic |-> FALSE, before |-> io]
    /\ UNCHANGED <<nodes, last, cres, seen>>

IdsInsertEdge ==
    /\ ~ ioLast.panic
    /\ \E from \in IdPortsOf, to \in IdPortsOf :
          \E r \in insert_edge(io, to, from) :
             /\ Cardinality(IoEdges(r.g)) <= IdEdges
             /\ io' = r.g
             /\ ioLast' = [op |-> "insert_edge", res |-> r.res, index |-> 0,
                           panic |-> r.res = "panic", before |-> io]
    /\ UNCHANGED <<nodes, last, cres, seen>>

IdsRemoveProcessor ==
    /\ ~ ioLast.panic
    /\ \E index \in 0 .. (IdProcessors - 1) :
          LET r == remove_processor(io, index)
          IN  /\ io' = r.g
              /\ ioLast' = [op |-> "remove_processor", res |-> r.res,
                            index |-> index, panic |-> r.panic, before |-> io]
    /\ UNCHANGED <<nodes, last, cres, seen>>

NextIds ==
    \/ IdsInsertProcessor
    \/ IdsInsertEdge
    \/ IdsRemoveProcessor

SpecIds == InitIds /\ [][NextIds]_vars


(***************************************************************************)
(* lender.rs: Lender<T> and Lendee<T> (src/src/lender.rs; the same code    *)
(* under the names SharedLender and LenderReciever in                      *)
(* polygraph/src/lender.rs).                                               *)
(*                                                                         *)
(* An asset is an Arc<T>.  Every call of lend is given a newly made Arc,   *)
(* named here by the number of the call.  A ring is the rtrb ring buffer   *)
(* shared by one Producer (kept by the lender) and one Consumer (kept by   *)
(* the lendee): it lives until both are dropped, and the assets still in   *)
(* it are dropped with it.  The lender runs on one thread, each lendee on  *)
(* its own; push and pop are the atomic steps of the ring.                 *)
(***************************************************************************)
MaxLendees == 2
MaxLends == 3

\* rtrb::RingBuffer::new(256) in the source (lender.rs:33).  What matters is
\* that the capacity is finite; the model takes a ring small enough to be
\* filled within MaxLends calls.
RingCapacity == 2

LendeeIds == 1 .. MaxLendees

NoAsset == 0

NewRing ==
    [queue |-> <<>>, producer |-> FALSE, consumer |-> FALSE, held |-> {},
     owed |-> <<>>, got |-> <<>>]

\* rtrb::Producer::push: Err(PushError::Full) on a full ring.
push(ring, item) ==
    IF Len(ring.queue) >= RingCapacity
    THEN [ring |-> ring, ok |-> FALSE]
    ELSE [ring |-> [ring EXCEPT !.queue = Append(@, item)], ok |-> TRUE]

\* rtrb::Consumer::pop: Err(PopError::Empty) on an empty ring.
pop(ring) ==
    IF ring.queue = <<>>
    THEN [ring |-> ring, item |-> NoAsset]
    ELSE [ring |-> [ring EXCEPT !.queue = Tail(@)], item |-> Head(ring.queue)]

\* rtrb::Producer::is_abandoned: the Consumer has been dropped.
is_abandoned(ring) == ~ ring.consumer

Occurrences(seq, x) == Cardinality({i \in DOMAIN seq : seq[i] = x})

\* The references to asset a that are not the lender's: the clones queued in
\* the rings and the clones the lendees took out and still hold.
ConsumerRefs(l, a) ==
    LET n[i \in 0 .. MaxLendees] ==
            IF i = 0 THEN 0
            ELSE n[i - 1] + Occurrences(l.rings[i].queue, a)
                          + (IF a \in l.rings[i].held THEN 1 ELSE 0)
    IN  n[MaxLendees]

\* The references to asset a on the lender's thread: the retained list and
\* the argument of a call of lend that has not returned.
LenderRefs(l, a) ==
    Occurrences(l.lent, a) + (IF l.pc = "lend" /\ l.item = a THEN 1 ELSE 0)

\* Arc::strong_count.
strong_count(l, a) == LenderRefs(l, a) + ConsumerRefs(l, a)

LenderDefault ==
    [ring_buffers |-> <<>>, lent |-> <<>>, rings |-> [i \in LendeeIds |-> NewRing],
     pc |-> "idle", item |-> NoAsset, next |-> 1, lends |-> 0, panic |-> FALSE]

\* create_lendee: a new ring; its Producer goes to the end of ring_buffers.
create_lendee(l, id) ==
    [l EXCEPT !.ring_buffers = Append(@, id),
              !.rings[id] = [NewRing EXCEPT !.producer = TRUE, !.consumer = TRUE]]

\* lend is entered with a new Arc.  owed notes, for every ring the lender
\* has at the call, that the asset is to arrive there.
lend_call(l) ==
    LET item == l.lends + 1
    IN  [l EXCEPT !.pc = "lend", !.item = item, !.next = 1, !.lends = item,
                  !.rings = [i \in LendeeIds |->
                                IF i \in Range(l.ring_buffers)
                                THEN [@[i] EXCEPT !.owed = Append(@, item)]
                                ELSE @[i]]]

\* One turn of the loop of lend (lender.rs:19-21), or, after the last one,
\* the push onto lent (lender.rs:23).  unwrap panics on a full ring, and
\* the unwinding drops item.
lend_step(l) ==
    IF l.next > Len(l.ring_buffers)
    THEN [l EXCEPT !.lent = Append(@, l.item), !.pc = "idle", !.item = NoAsset]
    ELSE LET id == l.ring_buffers[l.next]
             r  == push(l.rings[id], l.item)
         IN  IF r.ok
             THEN [l EXCEPT !.rings[id] = r.ring, !.next = @ + 1]
             ELSE [l EXCEPT !.pc = "panicked", !.item = NoAsset, !.panic = TRUE]

\* The first statement of cleanup (lender.rs:27).  An element that is
\* dropped lowers the count that the later elements are tested against.
RECURSIVE retain_lent(_, _)
retain_lent(l, i) ==
    IF i > Len(l.lent) THEN l
    ELSE IF strong_count(l, l.lent[i]) # 1
    THEN retain_lent(l, i + 1)
    ELSE retain_lent([l EXCEPT !.lent = SubSeq(@, 1, i - 1) \o
                                        SubSeq(@, i + 1, Len(@))], i)

\* The second statement of cleanup (lender.rs:28-29).  Dropping the Producer
\* of an abandoned ring drops the ring and the assets queued in it.
retain_ring_buffers(l) ==
    LET Keep(id) == ~ is_abandoned(l.rings[id])
    IN  [l EXCEPT !.ring_buffers = SelectSeq(@, Keep),
                  !.rings = [i \in LendeeIds |->
                                IF i \in Range(l.ring_buffers) /\ ~ Keep(i)
                                THEN [@[i] EXCEPT !.producer = FALSE, !.queue = <<>>]
                                ELSE @[i]]]

\* recv_next: the asset popped goes to the caller, who holds it until it
\* drops it.  got notes what has been taken out of the ring.
recv_next(ring) ==
    LET r == pop(ring)
    IN  IF r.item = NoAsset
        THEN [ring |-> ring, item |-> NoAsset]
        ELSE [ring |-> [r.ring EXCEPT !.held = @ \cup {r.item},
                                      !.got = Append(@, r.item)],
              item |-> r.item]

\* Faulty variant of recv_latest: hands out the first asset it pops.
recv_latest_First(ring) ==
    IF ring.queue = <<>>
    THEN [ring |-> ring, item |-> NoAsset]
    ELSE [ring |-> [ring EXCEPT !.queue = <<>>,
                                !.held = @ \cup {Head(ring.queue)},
                                !.got = @ \o ring.queue],
          item |-> Head(ring.queue)]

\* recv_latest: recv_next until it yields None; every asset but the last
\* one is dropped when the next one replaces it.
RECURSIVE recv_latest_loop(_, _)
recv_latest_loop(ring, output) ==
    LET r == recv_next(ring)
    IN  IF r.item = NoAsset
        THEN [ring |-> ring, item |-> output]
        ELSE recv_latest_loop([r.ring EXCEPT !.held = @ \ {output}], r.item)

recv_latest(ring) == recv_latest_loop(ring, NoAsset)

(***************************************************************************)
(* Specification SpecLender: one lender thread that creates lendees, lends *)
(* and cleans up, and the threads of the lendees, which receive, drop what *)
(* they received and drop their Lendee.  lend is split at its pushes and   *)
(* cleanup between its two statements, so that the lendees act in between. *)
(* A panic of lend ends the lender thread; the lendees go on.              *)
(***************************************************************************)
InitLender ==
    /\ nodes = GraphDefault
    /\ last = NoCall
    /\ cres = NoCompile
    /\ seen = NoRun
    /\ io = LenderDefault
    /\ ioLast = [op |-> "new", id |-> 0, res |-> NoAsset, before |-> io]

LenderCreateLendee ==
    /\ io.pc = "idle"
    /\ \E id \in LendeeIds :
          /\ id = 1 + Cardinality({i \in LendeeIds : io.rings[i].owed # <<>>
                                                     \/ io.rings[i].producer
                                                     \/ io.rings[i].consumer})
          /\ ~ io.rings[id].producer /\ ~ io.rings[id].consumer
          /\ io' = create_lendee(io, id)
          /\ ioLast' = [op |-> "create_lendee", id |-> id, res |-> NoAsset,
                        before |-> io]
    /\ UNCHANGED <<nodes, last, cres, seen>>

LenderLendCall ==
    /\ io.pc = "idle"
    /\ io.lends < MaxLends
    /\ io' = lend_call(io)
    /\ ioLast' = [op |-> "lend_call", id |-> 0, res |-> io'.item, before |-> io]
    /\ UNCHANGED <<nodes, last, cres, seen>>

LenderLendStep ==
    /\ io.pc = "lend"
    /\ io' = lend_step(io)
    /\ ioLast' = [op |-> "lend", id |-> 0, res |-> io.item, before |-> io]
    /\ UNCHANGED <<nodes, last, cres, seen>>

LenderCleanupLent ==
    /\ io.pc = "idle"
    /\ io' = [retain_lent(io, 1) EXCEPT !.pc = "cleanup"]
    /\ ioLast' = [op |-> "cleanup_lent", id |-> 0, res |-> NoAsset, before |-> io]
    /\ UNCHANGED <<nodes, last, cres, seen>>

LenderCleanupRings ==
    /\ io.pc = "cleanup"
    /\ io' = [retain_ring_buffers(io) EXCEPT !.pc = "idle"]
    /\ ioLast' = [op |-> "cleanup", id |-> 0, res |-> NoAsset, before |-> io]
    /\ UNCHANGED <<nodes, last, cres, seen>>

LendeeRecvNext ==
    /\ \E id \in LendeeIds :
          /\ io.rings[id].consumer
          /\ LET r == recv_next(io.rings[id])
             IN  /\ io' = [io EXCEPT !.rings[id] = r.ring]
                 /\ ioLast' = [op |-> "recv_next", id |-> id, res |-> r.item,
                               before |-> io]
    /\ UNCHANGED <<nodes, last, cres, seen>>

LendeeRecvLatest ==
    /\ \E id \in LendeeIds :
          /\ io.rings[id].consumer
          /\ LET r == recv_latest(io.rings[id])
             IN  /\ io' = [io EXCEPT !.rings[id] = r.ring]
                 /\ ioLast' = [op |-> "recv_latest", id |-> id, res |-> r.item,
                               before |-> io]
    /\ UNCHANGED <<nodes, last, cres, seen>>

\* The lendee drops an asset it received.
LendeeDropAsset ==
    /\ \E id \in LendeeIds :
          \E a \in io.rings[id].held :
             /\ io' = [io EXCEPT !.rings[id].held = @ \ {a}]
             /\ ioLast' = [op |-> "drop_asset", id |-> id, res |-> a, before |-> io]
    /\ UNCHANGED <<nodes, last, cres, seen>>

\* The Lendee itself is dropped.  The ring and what is queued in it stay
\* until the lender drops the Producer.
LendeeDrop ==
    /\ \E id \in LendeeIds :
          /\ io.rings[id].consumer
          /\ io' = [io EXCEPT !.rings[id].consumer = FALSE]
          /\ ioLast' = [op |-> "drop_lendee", id |-> id, res |-> NoAsset,
                        before |-> io]
    /\ UNCHANGED <<nodes, last, cres, seen>>

NextLender ==
    \/ LenderCreateLendee
    \/ LenderLendCall
    \/ LenderLendStep
    \/ LenderCleanupLent
    \/ LenderCleanupRings
    \/ LendeeRecvNext
    \/ LendeeRecvLatest
    \/ LendeeDropAsset
    \/ LendeeDrop

SpecLender == InitLender /\ [][NextLender]_vars


(***************************************************************************)
(* mythril_osc: the voice clusters of WTOsc and move_state                 *)
(* (mythril_osc/src/cluster.rs, mythril_osc/src/lib.rs:197-224).           *)
(*                                                                         *)
(* A SIMD vector is a function from its lanes 0 .. FLOATS_PER_VECTOR - 1   *)
(* to values.  split_stereo_cell reads a vector as an array of             *)
(* STEREO_VOICES_PER_VECTOR pairs, pair i being lanes 2i and 2i + 1.  The  *)
(* fields of all clusters are kept side by side, as a function from        *)
(* cluster index to field, so that a swap between two cells that are the   *)
(* same cell is the swap the code performs on shared storage.              *)
(***************************************************************************)
\* simd_util/src/util.rs:25 on a target with 16-byte vectors (sse, neon).
FLOATS_PER_VECTOR == 4

STEREO_VOICES_PER_VECTOR == FLOATS_PER_VECTOR \div 2

NumClusters == 3
MaxMoves == 2

Lanes == 0 .. (FLOATS_PER_VECTOR - 1)
Voices == 0 .. (STEREO_VOICES_PER_VECTOR - 1)
ClusterIndices == 0 .. (NumClusters - 1)

\* The smoothed parameters of WTOscClusterNormParams, in declaration order.
ParamFields ==
    {"level", "frame", "num_voices", "detune", "pan", "transpose", "stereo",
     "detune_range", "random"}

split_stereo_cell(vector) == [i \in Voices |-> <<vector[2 * i], vector[2 * i + 1]>>]

\* The vector that an array of pairs is a view of.
join_stereo(pairs) == [k \in Lanes |-> pairs[k \div 2][(k % 2) + 1]]

\* Faulty variant of swap_index_cell_unchecked: copies instead of swapping.
swap_index_cell_unchecked_Copy(cells, this, from, other, to) ==
    [c \in DOMAIN cells |-> [i \in DOMAIN cells[c] |->
        IF c = this /\ i = to THEN cells[other][from] ELSE cells[c][i]]]

\* swap_index_cell_unchecked(this, from, other, to) is
\* Cell::swap(this[to], other[from]) (cluster.rs:14-17).  cells[c] is the
\* array behind the cell of cluster c.  Cell::swap of a cell with itself
\* does nothing.
swap_index_cell_unchecked(cells, this, from, other, to) ==
    [c \in DOMAIN cells |-> [i \in DOMAIN cells[c] |->
        IF c = this /\ i = to THEN cells[other][from]
        ELSE IF c = other /\ i = from THEN cells[this][to]
        ELSE cells[c][i]]]

\* swap_index_cell_unchecked on the pairs of one vector field of every
\* cluster.
SwapStereo(vectors, this, from, other, to) ==
    LET cells == [c \in DOMAIN vectors |-> split_stereo_cell(vectors[c])]
        r     == swap_index_cell_unchecked(cells, this, from, other, to)
    IN  [c \in DOMAIN vectors |-> join_stereo(r[c])]

\* permute_smoother_values on one GenericSmoother of every cluster.
permute_smoother_values(smoothers, this, from, other, to) ==
    LET current == SwapStereo([c \in DOMAIN smoothers |-> smoothers[c].current],
                              this, from, other, to)
        target  == SwapStereo([c \in DOMAIN smoothers |-> smoothers[c].target],
                              this, from, other, to)
    IN  [c \in DOMAIN smoothers |-> [current |-> current[c], target |-> target[c]]]

\* The same for the two fields of a LinearSmoother (cluster.rs:313-345).
SwapLinearSmoother(smoothers, this, from, other, to) ==
    LET value     == SwapStereo([c \in DOMAIN smoothers |-> smoothers[c].value],
                                this, from, other, to)
        increment == SwapStereo([c \in DOMAIN smoothers |-> smoothers[c].increment],
                                this, from, other, to)
    IN  [c \in DOMAIN smoothers |-> [increment |-> increment[c], value |-> value[c]]]

\* WTOscClusterNormParams::move_state_unchecked (cluster.rs:100-126).
WTOscClusterNormParams_move_state_unchecked(params, this, from, other, to) ==
    LET smoothers == [f \in ParamFields |->
                        permute_smoother_values(
                            [c \in DOMAIN params |-> params[c].smoothers[f]],
                            this, from, other, to)]
        phase_delta == SwapStereo([c \in DOMAIN params |-> params[c].phase_delta],
                                  this, from, other, to)
    IN  [c \in DOMAIN params |->
            [smoothers   |-> [f \in ParamFields |-> smoothers[f][c]],
             phase_delta |-> phase_delta[c]]]

\* WTOscClusterNormParams::move_state (cluster.rs:92-97).
WTOscClusterNormParams_move_state(params, this, from, other, to) ==
    IF from < STEREO_VOICES_PER_VECTOR /\ to < STEREO_VOICES_PER_VECTOR
    THEN WTOscClusterNormParams_move_state_unchecked(params, this, from, other, to)
    ELSE params

\* WTOscVoiceCluster::move_state_unchecked (cluster.rs:305-351).  The
\* active_voice_mask is not touched.
WTOscVoiceCluster_move_state_unchecked(clusters, this, from, other, to) ==
    LET flipped == SwapLinearSmoother(
                       [c \in DOMAIN clusters |-> clusters[c].flipped_weights],
                       this, from, other, to)
        normal  == SwapLinearSmoother(
                       [c \in DOMAIN clusters |-> clusters[c].normal_weights],
                       this, from, other, to)
        voices  == swap_index_cell_unchecked(
                       [c \in DOMAIN clusters |-> clusters[c].voices],
                       this, from, other, to)
    IN  [c \in DOMAIN clusters |->
            [active_voice_mask |-> clusters[c].active_voice_mask,
             voices            |-> voices[c],
             normal_weights    |-> normal[c],
             flipped_weights   |-> flipped[c]]]

\* WTOscVoiceCluster::move_state (cluster.rs:297-302).
WTOscVoiceCluster_move_state(clusters, this, from, other, to) ==
    IF from < STEREO_VOICES_PER_VECTOR /\ to < STEREO_VOICES_PER_VECTOR
    THEN WTOscVoiceCluster_move_state_unchecked(clusters, this, from, other, to)
    ELSE clusters

\* Faulty variant of move_state: takes the two clusters as two exclusive
\* borrows, which fails when they are the same cluster.
WTOsc_move_state_Exclusive(osc, from_cluster, from_voice, to_cluster, to_voice) ==
    IF ~ (from_voice < STEREO_VOICES_PER_VECTOR /\ to_voice < STEREO_VOICES_PER_VECTOR)
    THEN [osc |-> osc, panic |-> TRUE]
    ELSE IF from_cluster \notin DOMAIN osc.clusters \/ to_cluster \notin DOMAIN osc.clusters
    THEN [osc |-> osc, panic |-> TRUE]
    ELSE IF from_cluster = to_cluster
    THEN [osc |-> osc, panic |-> TRUE]
    ELSE [osc |-> [osc EXCEPT
                     !.clusters = WTOscVoiceCluster_move_state_unchecked(
                                      @, from_cluster, from_voice, to_cluster, to_voice),
                     !.params = WTOscClusterNormParams_move_state_unchecked(
                                      @, from_cluster, from_voice, to_cluster, to_voice)],
          panic |-> FALSE]

\* <WTOsc as Processor>::move_state (lib.rs:197-224).  bool::then yields
\* None when a voice index is out of bounds and expect panics on it;
\* indexing the slices of cells panics on a cluster that does not exist,
\* before either unchecked call is made.
WTOsc_move_state(osc, from_cluster, from_voice, to_cluster, to_voice) ==
    IF ~ (from_voice < STEREO_VOICES_PER_VECTOR /\ to_voice < STEREO_VOICES_PER_VECTOR)
    THEN [osc |-> osc, panic |-> TRUE]
    ELSE IF from_cluster \notin DOMAIN osc.clusters \/ to_cluster \notin DOMAIN osc.clusters
    THEN [osc |-> osc, panic |-> TRUE]
    ELSE [osc |-> [osc EXCEPT
                     !.clusters = WTOscVoiceCluster_move_state_unchecked(
                                      @, from_cluster, from_voice, to_cluster, to_voice),
                     !.params = WTOscClusterNormParams_move_state_unchecked(
                                      @, from_cluster, from_voice, to_cluster, to_voice)],
          panic |-> FALSE]

(***************************************************************************)
(* Specification SpecMove: an oscillator initialized for NumClusters       *)
(* clusters whose lanes all hold different values, and up to MaxMoves      *)
(* calls of move_state, on the oscillator or on two of its clusters or     *)
(* parameter records.  Voice indices run up to the first one out of        *)
(* bounds, cluster indices up to the first one that does not exist.  A     *)
(* panic ends the run.                                                     *)
(***************************************************************************)
\* The value in lane k of a vector of cluster c.
LaneTag(c, k) == c * FLOATS_PER_VECTOR + k + 1

TagVector(c) == [k \in Lanes |-> LaneTag(c, k)]

InitialOsc ==
    [clusters |-> [c \in ClusterIndices |->
                     [active_voice_mask |-> c % 4,
                      voices            |-> [i \in Voices |->
                                               c * STEREO_VOICES_PER_VECTOR + i + 1],
                      normal_weights    |-> [increment |-> TagVector(c),
                                             value     |-> TagVector(c)],
                      flipped_weights   |-> [increment |-> TagVector(c),
                                             value     |-> TagVector(c)]]],
     params   |-> [c \in ClusterIndices |->
                     [smoothers   |-> [f \in ParamFields |->
                                         [current |-> TagVector(c),
                                          target  |-> TagVector(c)]],
                      phase_delta |-> TagVector(c)]],
     moves    |-> 0]

NoMove == [op |-> "new", from |-> <<0, 0>>, to |-> <<0, 0>>, panic |-> FALSE,
           before |-> InitialOsc]

InitMove ==
    /\ nodes = GraphDefault
    /\ last = NoCall
    /\ cres = NoCompile
    /\ seen = NoRun
    /\ io = InitialOsc
    /\ ioLast = [NoMove EXCEPT !.op = "initialize"] @@ [prev |-> NoMove]

Moved(op, from, to, osc, panic) ==
    /\ io' = [osc EXCEPT !.moves = @ + 1]
    /\ ioLast' = [op |-> op, from |-> from, to |-> to, panic |-> panic,
                  before |-> io,
                  prev |-> [op |-> ioLast.op, from |-> ioLast.from, to |-> ioLast.to,
                            panic |-> ioLast.panic, before |-> ioLast.before]]
    /\ UNCHANGED <<nodes, last, cres, seen>>

MoveState ==
    /\ ~ ioLast.panic
    /\ io.moves < MaxMoves
    /\ \E from_cluster \in 0 .. NumClusters, to_cluster \in 0 .. NumClusters,
          from_voice \in 0 .. STEREO_VOICES_PER_VECTOR,
          to_voice \in 0 .. STEREO_VOICES_PER_VECTOR :
          LET r == WTOsc_move_state(io, from_cluster, from_voice, to_cluster, to_voice)
          IN  Moved("move_state", <<from_cluster, from_voice>>,
                    <<to_cluster, to_voice>>, r.osc, r.panic)

ClusterMoveState ==
    /\ ~ ioLast.panic
    /\ io.moves < MaxMoves
    /\ \E this \in ClusterIndices, other \in ClusterIndices,
          from \in 0 .. STEREO_VOICES_PER_VECTOR, to \in 0 .. STEREO_VOICES_PER_VECTOR :
          Moved("cluster_move_state", <<this, from>>, <<other, to>>,
                [io EXCEPT !.clusters =
                    WTOscVoiceCluster_move_state(@, this, from, other, to)],
                FALSE)

ParamsMoveState ==
    /\ ~ ioLast.panic
    /\ io.moves < MaxMoves
    /\ \E this \in ClusterIndices, other \in ClusterIndices,
          from \in 0 .. STEREO_VOICES_PER_VECTOR, to \in 0 .. STEREO_VOICES_PER_VECTOR :
          Moved("params_move_state", <<this, from>>, <<other, to>>,
                [io EXCEPT !.params =
                    WTOscClusterNormParams_move_state(@, this, from, other, to)],
                FALSE)

NextMove ==
    \/ MoveState
    \/ ClusterMoveState
    \/ ParamsMoveState

SpecMove == InitMove /\ [][NextMove]_vars


(***************************************************************************)
(* mythril_osc: the index computation of the band-limited wavetable        *)
(* resampler (mythril_osc/src/wavetable.rs:85-157).  A u32 is kept at its  *)
(* full width as a pair <<hi, lo>> of 16-bit halves, and the operations    *)
(* of get_resample_data wrap at 2^32 as the SIMD lanes do.  One lane is    *)
(* modelled: the lanes of a vector are computed independently.             *)
(***************************************************************************)
RECURSIVE Pow2(_)
Pow2(n) == IF n = 0 THEN 1 ELSE 2 * Pow2(n - 1)

NUM_OCTAVES == 11
FRAME_LEN == Pow2(NUM_OCTAVES)
NUM_MIPMAPS == NUM_OCTAVES + 1
U32_BITS == 32
FRACT_BITS == U32_BITS - NUM_OCTAVES
PHASE_MASK == FRAME_LEN - 1
Half == Pow2(U32_BITS \div 2)
MaxFrames == 3

\* The u32 of a natural number below 2^31.
U32(n) == <<n \div Half, n % Half>>

\* The leading zeros of a 16-bit half.
RECURSIVE lz16(_)
lz16(h) == IF h = 0 THEN 16 ELSE lz16(h \div 2) - 1

\* u32::leading_zeros.
leading_zeros(x) == IF x[1] # 0 THEN lz16(x[1]) ELSE 16 + lz16(x[2])

\* simd_min against a splat of n.
simd_min(a, n) == IF a < n THEN a ELSE n

\* x << n on u32, 0 < n < 16: the bits shifted out are lost.
shl(x, n) ==
    <<(x[1] * Pow2(n) + x[2] \div Pow2(16 - n)) % Half, (x[2] * Pow2(n)) % Half>>

\* x >> n on u32, 16 <= n < 32.
shr(x, n) == <<0, x[1] \div Pow2(n - 16)>>

\* Wrapping a + b on u32.
wrapping_add(a, b) ==
    <<(a[1] + b[1] + (a[2] + b[2]) \div Half) % Half, (a[2] + b[2]) % Half>>

\* Wrapping x * k on u32, for a constant k below 2^15.
wrapping_mul(x, k) ==
    <<(x[1] * k + (x[2] * k) \div Half) % Half, (x[2] * k) % Half>>

\* x & mask on u32, for a mask 2^k - 1 below 2^16.
and_mask(x, mask) == <<0, x[2] % (mask + 1)>>

\* wavetable.rs:96-109.  fract is the fixed-point numerator handed to
\* fxp_to_flp.
get_resample_data_Unclamped(phase, frame, phase_delta) ==
    LET octaves == leading_zeros(phase_delta)
        table_start == shl(wrapping_add(U32(octaves), wrapping_mul(frame, NUM_MIPMAPS)),
                           NUM_OCTAVES)
        phase_a == shr(phase, FRACT_BITS)
        phase_b == and_mask(wrapping_add(phase_a, U32(1)), PHASE_MASK)
    IN  [octaves |-> octaves, fract |-> shl(phase, NUM_OCTAVES),
         table_start |-> table_start, phase_a |-> phase_a, phase_b |-> phase_b,
         start_idx |-> wrapping_add(table_start, phase_a),
         end_idx |-> wrapping_add(table_start, phase_b)]

get_resample_data_NoMask(phase, frame, phase_delta) ==
    LET octaves == simd_min(leading_zeros(phase_delta), NUM_OCTAVES)
        table_start == shl(wrapping_add(U32(octaves), wrapping_mul(frame, NUM_MIPMAPS)),
                           NUM_OCTAVES)
        phase_a == shr(phase, FRACT_BITS)
        phase_b == wrapping_add(phase_a, U32(1))
    IN  [octaves |-> octaves, fract |-> shl(phase, NUM_OCTAVES),
         table_start |-> table_start, phase_a |-> phase_a, phase_b |-> phase_b,
         start_idx |-> wrapping_add(table_start, phase_a),
         end_idx |-> wrapping_add(table_start, phase_b)]

get_resample_data(phase, frame, phase_delta) ==
    LET octaves == simd_min(leading_zeros(phase_delta), NUM_OCTAVES)
        table_start == shl(wrapping_add(U32(octaves), wrapping_mul(frame, NUM_MIPMAPS)),
                           NUM_OCTAVES)
        phase_a == shr(phase, FRACT_BITS)
        phase_b == and_mask(wrapping_add(phase_a, U32(1)), PHASE_MASK)
    IN  [octaves |-> octaves, fract |-> shl(phase, NUM_OCTAVES),
         table_start |-> table_start, phase_a |-> phase_a, phase_b |-> phase_b,
         start_idx |-> wrapping_add(table_start, phase_a),
         end_idx |-> wrapping_add(table_start, phase_b)]

\* The phase deltas tried: zero, every power of two, every 2^k - 1 pattern of
\* each half, and the largest u32.
PhaseDeltas ==
    {<<0, 0>>, <<Half - 1, Half - 1>>, <<Half - 1, 0>>, <<1, 1>>}
       \cup {<<Pow2(k), 0>> : k \in 0 .. 15} \cup {<<0, Pow2(k)>> : k \in 0 .. 15}
       \cup {<<0, Pow2(k) - 1>> : k \in 1 .. 16}

\* The phases tried: the first, the last and a middle position of the
\* frame, with and without fractional bits.
Phases ==
    {<<0, 0>>, <<0, Half - 1>>, <<Pow2(15), 0>>, <<Pow2(15) + 31, 12345>>,
     <<Half - 32, 0>>, <<Half - 1, Half - 1>>, <<Half - 33, Half - 1>>}

\* The frames tried: those of the table, the first one past it, and the
\* largest u32.
Frames == {U32(f) : f \in 0 .. MaxFrames} \cup {<<Half - 1, Half - 1>>}

NoResample ==
    [op |-> "initialize", mask |-> FALSE, phase |-> <<0, 0>>, frame |-> <<0, 0>>,
     phase_delta |-> <<0, 0>>, data |-> get_resample_data(<<0, 0>>, <<0, 0>>, <<0, 0>>)]

\* with_frame_count(num_frames): a table of num_frames frames, and the
\* arguments of the calls to come.
InitResample ==
    /\ nodes = GraphDefault
    /\ last = NoCall
    /\ cres = NoCompile
    /\ seen = NoRun
    /\ io \in {[num_frames |-> n, phase |-> phase, frame |-> frame,
                phase_delta |-> phase_delta] :
                  n \in 0 .. MaxFrames, phase \in Phases, frame \in Frames,
                  phase_delta \in PhaseDeltas}
    /\ ioLast = NoResample

\* wavetable.rs:144-157: resample gathers at both indices of every lane.
Resample ==
    /\ ioLast' = [op |-> "resample", mask |-> TRUE, phase |-> io.phase,
                  frame |-> io.frame, phase_delta |-> io.phase_delta,
                  data |-> get_resample_data(io.phase, io.frame, io.phase_delta)]
    /\ UNCHANGED <<nodes, last, cres, seen, io>>

\* wavetable.rs:115-137: resample_select gathers at the lanes whose mask
\* bit is set.
ResampleSelect ==
    \E mask \in BOOLEAN :
       /\ ioLast' = [op |-> "resample_select", mask |-> mask, phase |-> io.phase,
                     frame |-> io.frame, phase_delta |-> io.phase_delta,
                     data |-> get_resample_data(io.phase, io.frame, io.phase_delta)]
       /\ UNCHANGED <<nodes, last, cres, seen, io>>

NextResample ==
    \/ Resample
    \/ ResampleSelect

SpecResample == InitResample /\ [][NextResample]_vars


(***************************************************************************)
(* The delay lines: Delay (src/delay.rs), FixedDelayBuffer                 *)
(* (polygraph/src/delay_buffer.rs) and delay_slice (src/buffer.rs:212-238).*)
(* A line is [kind, buf, current]; buf is the ring (for delay_slice, the   *)
(* delay buffer handed in by the caller) and current the index of the      *)
(* next sample to leave.  io also records every sample fed and every       *)
(* sample returned, in order.                                              *)
(***************************************************************************)
MaxDelay == 3
MaxBlock == 5
MaxFed == 6
DefaultSample == 0
Samples == {1, 2}

RECURSIVE Repeat(_, _)
Repeat(x, n) == IF n = 0 THEN <<>> ELSE <<x>> \o Repeat(x, n - 1)

\* The blocks of at most n samples.
RECURSIVE Blocks(_)
Blocks(n) ==
    IF n = 0 THEN {<<>>}
    ELSE Blocks(n - 1) \cup {Append(b, s) : b \in {c \in Blocks(n - 1) : Len(c) = n - 1},
                                            s \in Samples}

\* slice[from..to] with 0-based bounds, to excluded.
Slice(s, from, to) == SubSeq(s, from + 1, to)

\* swap_with_slice / ptr::swap_nonoverlapping of the part of ring that starts
\* at index at with block: the ring after the swap.
SwapIn(ring, at, block) ==
    [i \in 1 .. Len(ring) |->
        IF i > at /\ i <= at + Len(block) THEN block[i - at] ELSE ring[i]]

\* delay.rs:14-27, delay_buffer.rs:11-21: a line of len default samples.
NewLine(kind, len) ==
    [kind |-> kind, buf |-> Repeat(DefaultSample, len), current |-> 0]

\* delay.rs:62-69 wrap_current_ptr, delay_buffer.rs:38-43 wrap_index.
wrap_index_Stay(line) == line

wrap_index(line) ==
    LET next == line.current + 1
    IN  [line EXCEPT !.current = IF next = Len(line.buf) THEN 0 ELSE next]

\* delay.rs:89-101 process_sample_in_place / process_sample,
\* delay_buffer.rs:45-56 push_sample / push_sample_ref: the sample at
\* current is exchanged with the one handed in.
push_sample(line, sample) ==
    [line |-> wrap_index([line EXCEPT !.buf[line.current + 1] = sample]),
     out |-> <<line.buf[line.current + 1]>>]

\* delay.rs:103-108 process_buffer.
RECURSIVE process_buffer(_, _)
process_buffer(line, block) ==
    IF block = <<>> THEN [line |-> line, out |-> <<>>]
    ELSE LET first == push_sample(line, Head(block))
             rest == process_buffer(first.line, Tail(block))
         IN  [line |-> rest.line, out |-> first.out \o rest.out]

\* The chunks_exact_mut loop of delay_buffer.rs:68-71 and buffer.rs:221-229:
\* every whole chunk of the length of the ring is exchanged with the ring.
RECURSIVE swap_chunks(_, _)
swap_chunks(ring, block) ==
    IF Len(block) < Len(ring) THEN [ring |-> ring, rem |-> block, out |-> <<>>]
    ELSE LET rest == swap_chunks(Slice(block, 0, Len(ring)),
                                 Slice(block, Len(ring), Len(block)))
         IN  [rest EXCEPT !.out = ring \o @]

\* delay_buffer.rs:58-81 delay_maybe_opt.
delay_maybe_opt(line, block) ==
    LET len == Len(line.buf)
        current_len == len - line.current
    IN  IF Len(block) >= current_len
        THEN LET start == Slice(block, 0, current_len)
                 swapped == SwapIn(line.buf, line.current, start)
                 chunks == swap_chunks(swapped, Slice(block, current_len, Len(block)))
                 rem_len == Len(chunks.rem)
             IN  [line |-> [line EXCEPT !.buf = SwapIn(chunks.ring, 0, chunks.rem),
                                        !.current = rem_len],
                  out |-> Slice(line.buf, line.current, len) \o chunks.out
                             \o Slice(chunks.ring, 0, rem_len)]
        ELSE [line |-> [line EXCEPT !.buf = SwapIn(line.buf, line.current, block),
                                    !.current = @ + Len(block)],
              out |-> Slice(line.buf, line.current, line.current + Len(block))]

\* slice::rotate_left.
rotate_left_None(s, n) == s

rotate_left(s, n) == Slice(s, n, Len(s)) \o Slice(s, 0, n)

\* buffer.rs:212-238 delay_slice(buf, delay_buf).
delay_slice(line, block) ==
    IF Len(line.buf) = 0 THEN [line |-> line, out |-> block]
    ELSE LET chunks == swap_chunks(line.buf, block)
             rem_len == Len(chunks.rem)
         IN  [line |-> [line EXCEPT !.buf = rotate_left(SwapIn(chunks.ring, 0, chunks.rem),
                                                        rem_len)],
              out |-> chunks.out \o Slice(chunks.ring, 0, rem_len)]

\* A line of every kind and every length, nothing fed yet.
InitDelay ==
    /\ nodes = GraphDefault
    /\ last = NoCall
    /\ cres = NoCompile
    /\ seen = NoRun
    /\ io \in {[line |-> NewLine(kind, len), fed |-> <<>>, out |-> <<>>] :
                  kind \in {"Delay", "FixedDelayBuffer", "delay_slice"},
                  len \in 1 .. MaxDelay}
    /\ ioLast = [op |-> "new", block |-> <<>>]

Fed(op, block, r) ==
    /\ io' = [line |-> r.line, fed |-> io.fed \o block, out |-> io.out \o r.out]
    /\ ioLast' = [op |-> op, block |-> block]
    /\ UNCHANGED <<nodes, last, cres, seen>>

\* Delay::process_sample and process_sample_in_place.
DelayProcessSample ==
    /\ io.line.kind = "Delay"
    /\ Len(io.fed) < MaxFed
    /\ \E sample \in Samples :
          Fed("process_sample", <<sample>>, push_sample(io.line, sample))

\* Delay::process_buffer.
DelayProcessBuffer ==
    /\ io.line.kind = "Delay"
    /\ \E block \in Blocks(MaxBlock) :
          /\ Len(io.fed) + Len(block) <= MaxFed
          /\ Fed("process_buffer", block, process_buffer(io.line, block))

\* FixedDelayBuffer::push_sample and push_sample_ref.
FixedPushSample ==
    /\ io.line.kind = "FixedDelayBuffer"
    /\ Len(io.fed) < MaxFed
    /\ \E sample \in Samples :
          Fed("push_sample", <<sample>>, push_sample(io.line, sample))

\* FixedDelayBuffer::delay.
FixedDelay ==
    /\ io.line.kind = "FixedDelayBuffer"
    /\ \E block \in Blocks(MaxBlock) :
          /\ Len(io.fed) + Len(block) <= MaxFed
          /\ Fed("delay", block, delay_maybe_opt(io.line, block))

\* delay_slice on the caller's buffer and the delay buffer.
DelaySlice ==
    /\ io.line.kind = "delay_slice"
    /\ \E block \in Blocks(MaxBlock) :
          /\ Len(io.fed) + Len(block) <= MaxFed
          /\ Fed("delay_slice", block, delay_slice(io.line, block))

NextDelay ==
    \/ DelayProcessSample
    \/ DelayProcessBuffer
    \/ FixedPushSample
    \/ FixedDelay
    \/ DelaySlice

SpecDelay == InitDelay /\ [][NextDelay]_vars


(***************************************************************************)
(* BufferList (src/buffer.rs:4-188): num_bufs buffers of samples_per_buf   *)
(* samples in one allocation.  A buffer pointer is the offset of its first *)
(* sample in the allocation and its length.                                *)
(***************************************************************************)
MaxBufs == 3
MaxSamplesPerBuf == 2
MaxIndices == 3

\* buffer.rs:58-71 BufferList::new.
BufferList_new(samples_per_buf, num_bufs) ==
    [samples_per_buf |-> samples_per_buf, num_bufs |-> num_bufs]

\* buffer.rs:95-100.
get_buf_ptr_unchecked(list, index) ==
    [start |-> list.samples_per_buf * index, len |-> list.samples_per_buf]

\* buffer.rs:102-108: Some(ptr) is <<ptr>>, None is << >>.
get_buf_ptr(list, index) ==
    IF index < list.num_bufs THEN <<get_buf_ptr_unchecked(list, index)>> ELSE <<>>

\* buffer.rs:118-123.
get_buf(list, index) == get_buf_ptr(list, index)

\* buffer.rs:132-149.
get_disjoint_unchecked_mut(list, indices) ==
    [i \in 1 .. Len(indices) |-> get_buf_ptr_unchecked(list, indices[i])]

\* buffer.rs:155-181: the loop from position i on (positions from 1).
RECURSIVE check_from(_, _, _)
check_from(indices, len, i) ==
    IF i > Len(indices) THEN "Ok"
    ELSE IF indices[i] >= len THEN "IndexOutOfBounds"
    ELSE IF \E j \in 1 .. (i - 1) : indices[j] = indices[i] THEN "OverlappingIndices"
    ELSE check_from(indices, len, i + 1)

check_disjointness_BoundsOnly(indices, len) ==
    IF \E i \in 1 .. Len(indices) : indices[i] >= len THEN "IndexOutOfBounds" ELSE "Ok"

check_disjointness(indices, len) == check_from(indices, len, 1)

\* buffer.rs:151-187.
get_disjoint_mut(list, indices) ==
    LET r == check_disjointness(indices, list.num_bufs)
    IN  IF r = "Ok"
        THEN [res |-> "Ok", bufs |-> get_disjoint_unchecked_mut(list, indices)]
        ELSE [res |-> r, bufs |-> <<>>]

\* The indices asked for: those of the list, the first ones past it and the
\* largest usize.
BufIndices == 0 .. (MaxBufs + 1) \cup {UsizeMax}

RECURSIVE IndexArrays(_)
IndexArrays(n) ==
    IF n = 0 THEN {<<>>}
    ELSE IndexArrays(n - 1)
            \cup {Append(a, i) : a \in {b \in IndexArrays(n - 1) : Len(b) = n - 1},
                                 i \in BufIndices}

\* A list of every shape, and the arguments of the calls to come.
InitBufferList ==
    /\ nodes = GraphDefault
    /\ last = NoCall
    /\ cres = NoCompile
    /\ seen = NoRun
    /\ io \in {BufferList_new(samples_per_buf, num_bufs)
                  @@ [index |-> index, indices |-> indices] :
                  samples_per_buf \in 0 .. MaxSamplesPerBuf, num_bufs \in 0 .. MaxBufs,
                  index \in BufIndices, indices \in IndexArrays(MaxIndices)}
    /\ ioLast = [op |-> "new", indices |-> <<>>, res |-> "Ok", bufs |-> <<>>]

GetBuf ==
    LET r == get_buf(io, io.index)
    IN  /\ ioLast' = [op |-> "get_buf", indices |-> <<io.index>>,
                      res |-> IF r = <<>> THEN "None" ELSE "Some", bufs |-> r]
        /\ UNCHANGED <<nodes, last, cres, seen, io>>

GetDisjointMut ==
    LET r == get_disjoint_mut(io, io.indices)
    IN  /\ ioLast' = [op |-> "get_disjoint_mut", indices |-> io.indices,
                      res |-> r.res, bufs |-> r.bufs]
        /\ UNCHANGED <<nodes, last, cres, seen, io>>

NextBufferList ==
    \/ GetBuf
    \/ GetDisjointMut

SpecBufferList == InitBufferList /\ [][NextBufferList]_vars


(***************************************************************************)
(* StackVoiceManager (polygraph/src/voice.rs:38-216).  A manager is        *)
(* [voices, event_cache, add_pending, free_pending, deactivate_pending,    *)
(* capacity, events, panic]: capacity is the capacity the four vectors     *)
(* were created with, events the vector filled by the last flush_events,   *)
(* and panic is set when an index into the event cache is out of bounds.   *)
(***************************************************************************)
VoiceLanes == 2
MaxClusters == 2
MaxPending == 4
Notes == {60, 61}
Velocities == {100}
NoNote == 0
NoVelocity == 0

\* N / 2: the stereo voices of a cluster.
VoicesPerCluster == VoiceLanes \div 2

\* voice.rs:54-60 clear_and_set_capacity.
clear_and_set_capacity(num_clusters) ==
    [mask_cache |-> [i \in 1 .. num_clusters |-> [l \in 1 .. VoiceLanes |-> FALSE]],
     vel_cache |-> [i \in 1 .. num_clusters |-> [l \in 1 .. VoiceLanes |-> NoVelocity]],
     note_cache |-> [i \in 1 .. num_clusters |-> [l \in 1 .. VoiceLanes |-> NoNote]]]

\* voice.rs:200-211 set_max_polyphony.
set_max_polyphony(max_num_clusters) ==
    [voices |-> <<>>, add_pending |-> <<>>, free_pending |-> <<>>,
     deactivate_pending |-> <<>>,
     capacity |-> max_num_clusters * VoicesPerCluster * 4,
     event_cache |-> clear_and_set_capacity(max_num_clusters),
     events |-> <<>>, panic |-> FALSE]

\* voice.rs:108-114.
push_within_capacity_stable(vec, capacity, val) ==
    IF Len(vec) < capacity THEN Append(vec, val) ELSE vec

\* voice.rs:62-81 activate_index; note is << >> for None.  The manager
\* panics when the cluster of index is not one of the cache.
activate_index(m, index, vel, note) ==
    LET i == index \div VoicesPerCluster
        j == index % VoicesPerCluster
        j1 == 2 * j
        j2 == j1 + 1
        c == m.event_cache
    IN  IF i >= Len(c.mask_cache) THEN [m EXCEPT !.panic = TRUE]
        ELSE [m EXCEPT !.event_cache =
                 [mask_cache |-> [c.mask_cache EXCEPT ![i + 1][j1 + 1] = TRUE,
                                                      ![i + 1][j2 + 1] = TRUE],
                  vel_cache |-> [c.vel_cache EXCEPT ![i + 1][j1 + 1] = vel,
                                                    ![i + 1][j2 + 1] = vel],
                  note_cache |-> IF note = <<>> THEN c.note_cache
                                 ELSE [c.note_cache EXCEPT ![i + 1][j1 + 1] = note[1],
                                                           ![i + 1][j2 + 1] = note[1]]]]

\* voice.rs:83-93 take_data from cluster i on: the clusters with a mask bit
\* set, in order, as events of the given type.
RECURSIVE take_events(_, _, _)
take_events(c, i, type) ==
    IF i > Len(c.mask_cache) THEN <<>>
    ELSE (IF \E l \in 1 .. VoiceLanes : c.mask_cache[i][l]
          THEN <<[type |-> type, cluster_idx |-> i - 1, mask |-> c.mask_cache[i],
                  velocity |-> c.vel_cache[i], note |-> c.note_cache[i]]>>
          ELSE <<>>) \o take_events(c, i + 1, type)

\* take_data leaves the default in every cluster it yields.
take_data(m, type) ==
    [m EXCEPT !.events = @ \o take_events(m.event_cache, 1, type),
              !.event_cache = clear_and_set_capacity(Len(m.event_cache.mask_cache))]

\* iter().position(|&note_id| note_id == note): << >> for None.
position(voices, note) ==
    LET found == {i \in 1 .. Len(voices) : voices[i] = note}
    IN  IF found = {} THEN <<>>
        ELSE <<(CHOOSE i \in found : \A k \in found : i <= k) - 1>>

\* voice.rs:134-138: the deactivate_pending loop.
RECURSIVE DeactivateLoop(_, _)
DeactivateLoop(m, pending) ==
    IF pending = <<>> \/ m.panic THEN m
    ELSE LET at == position(m.voices, Head(pending)[1])
         IN  DeactivateLoop(IF at = <<>> THEN m
                            ELSE activate_index(m, at[1], Head(pending)[2], <<>>),
                            Tail(pending))

\* voice.rs:151-178: one freed note.
FreeNote(m, freed_note) ==
    LET at == position(m.voices, freed_note)
    IN  IF at = <<>> THEN m
        ELSE LET i == at[1]
             IN  IF m.add_pending # <<>>
                 THEN LET added == m.add_pending[Len(m.add_pending)]
                      IN  activate_index(
                             [m EXCEPT !.add_pending = SubSeq(@, 1, Len(@) - 1),
                                       !.voices[i + 1] = added[1]],
                             i, added[2], <<added[1]>>)
                 ELSE LET replacement_note == m.voices[Len(m.voices)]
                          popped == SubSeq(m.voices, 1, Len(m.voices) - 1)
                          from == Len(popped)
                      IN  IF i < Len(popped)
                          THEN [m EXCEPT
                                  !.voices = [popped EXCEPT ![i + 1] = replacement_note],
                                  !.events = Append(@,
                                     [type |-> "Move",
                                      from |-> <<from \div VoicesPerCluster,
                                                 from % VoicesPerCluster>>,
                                      to |-> <<i \div VoicesPerCluster,
                                               i % VoicesPerCluster>>])]
                          ELSE [m EXCEPT !.voices = popped]

\* voice.rs:151-178: the free_pending loop.
RECURSIVE FreeLoop(_, _)
FreeLoop(m, pending) ==
    IF pending = <<>> \/ m.panic THEN m
    ELSE FreeLoop(FreeNote(m, Head(pending)), Tail(pending))

\* voice.rs:180-185: the add_pending loop.
RECURSIVE AddLoop(_, _)
AddLoop(m, pending) ==
    IF pending = <<>> \/ m.panic THEN m
    ELSE LET i == Len(m.voices)
             pushed == push_within_capacity_stable(m.voices, m.capacity, Head(pending)[1])
         IN  AddLoop(IF Len(pushed) > i
                     THEN activate_index([m EXCEPT !.voices = pushed], i,
                                         Head(pending)[2], <<Head(pending)[1]>>)
                     ELSE m,
                     Tail(pending))

\* voice.rs:132-198 flush_events into an empty vector.  A panic leaves the
\* manager as it was when the index failed.
flush_events(m) ==
    LET m0 == [m EXCEPT !.events = <<>>]
        m1 == DeactivateLoop([m0 EXCEPT !.deactivate_pending = <<>>],
                             m0.deactivate_pending)
        m2 == IF m1.panic THEN m1 ELSE take_data(m1, "Deactivate")
        m3 == IF m2.panic THEN m2
              ELSE FreeLoop([m2 EXCEPT !.free_pending = <<>>], m2.free_pending)
        m4 == IF m3.panic THEN m3
              ELSE AddLoop([m3 EXCEPT !.add_pending = <<>>], m3.add_pending)
    IN  IF m4.panic THEN m4 ELSE take_data(m4, "Activate")

\* voice.rs:213-215 get_voice_mask.
get_voice_mask(m, cluster_idx) ==
    [i \in 1 .. VoiceLanes |-> cluster_idx + (i - 1) \div 2 < Len(m.voices)]

Pending(m) == Len(m.add_pending) + Len(m.free_pending) + Len(m.deactivate_pending)

NoVoiceCall == [op |-> "default", note |-> NoNote, before |-> <<>>]

\* StackVoiceManager::default(): empty vectors without capacity.
InitVoice ==
    /\ nodes = GraphDefault
    /\ last = NoCall
    /\ cres = NoCompile
    /\ seen = NoRun
    /\ io = set_max_polyphony(0)
    /\ ioLast = NoVoiceCall

SetMaxPolyphony ==
    /\ ~ io.panic
    /\ \E max_num_clusters \in 0 .. MaxClusters :
          /\ io' = set_max_polyphony(max_num_clusters)
          /\ ioLast' = [NoVoiceCall EXCEPT !.op = "set_max_polyphony"]
    /\ UNCHANGED <<nodes, last, cres, seen>>

\* note_on: voice.rs:120-122.
NoteOn ==
    /\ ~ io.panic
    /\ Pending(io) < MaxPending \/ Len(io.add_pending) >= io.capacity
    /\ \E note \in Notes, vel \in Velocities :
          /\ io' = [io EXCEPT !.add_pending =
                       push_within_capacity_stable(@, io.capacity, <<note, vel>>)]
          /\ ioLast' = [NoVoiceCall EXCEPT !.op = "note_on", !.note = note]
    /\ UNCHANGED <<nodes, last, cres, seen>>

\* note_off: voice.rs:124-126.
NoteOff ==
    /\ ~ io.panic
    /\ Pending(io) < MaxPending \/ Len(io.deactivate_pending) >= io.capacity
    /\ \E note \in Notes, vel \in Velocities :
          /\ io' = [io EXCEPT !.deactivate_pending =
                       push_within_capacity_stable(@, io.capacity, <<note, vel>>)]
          /\ ioLast' = [NoVoiceCall EXCEPT !.op = "note_off", !.note = note]
    /\ UNCHANGED <<nodes, last, cres, seen>>

\* note_free: voice.rs:128-130.
NoteFree ==
    /\ ~ io.panic
    /\ Pending(io) < MaxPending \/ Len(io.free_pending) >= io.capacity
    /\ \E note \in Notes :
          /\ io' = [io EXCEPT !.free_pending =
                       push_within_capacity_stable(@, io.capacity, note)]
          /\ ioLast' = [NoVoiceCall EXCEPT !.op = "note_free", !.note = note]
    /\ UNCHANGED <<nodes, last, cres, seen>>

FlushEvents ==
    /\ ~ io.panic
    /\ io' = flush_events(io)
    /\ ioLast' = [NoVoiceCall EXCEPT !.op = "flush_events", !.before = <<io>>]
    /\ UNCHANGED <<nodes, last, cres, seen>>

\* get_voice_mask: voice.rs:213-215.
GetVoiceMask ==
    /\ ~ io.panic
    /\ \E cluster_idx \in 0 .. MaxClusters :
          /\ ioLast' = [op |-> "get_voice_mask", note |-> cluster_idx,
                        before |-> <<get_voice_mask(io, cluster_idx)>>]
          /\ UNCHANGED <<nodes, last, cres, seen, io>>

NextVoice ==
    \/ SetMaxPolyphony
    \/ NoteOn
    \/ NoteOff
    \/ NoteFree
    \/ FlushEvents
    \/ GetVoiceMask

SpecVoice == InitVoice /\ [][NextVoice]_vars


(***************************************************************************)
(* Properties of graph.rs.                                                 *)
(***************************************************************************)
\* Both ends of the edge (from, to) exist: a forward port of an existing
\* node and a backward port of an existing node.
PortsExist(g, from, to) ==
    /\ from[1] \in DOMAIN g
    /\ from[2] \in DOMAIN g[from[1]].forward_ports
    /\ to[1] \in DOMAIN g
    /\ to[2] \in g[to[1]].backward_port_ids

\* The nodes one stored edge away from node n.
Succ(g, n) == {e[3] : e \in {x \in Edges(g) : x[1] = n}}

\* The nodes that paths of any length from the nodes of S lead to, S included.
RECURSIVE ReachFrom(_, _)
ReachFrom(g, S) ==
    LET T == S \cup UNION {Succ(g, n) : n \in S}
    IN  IF T = S THEN S ELSE ReachFrom(g, T)

\* C4: in every graph, for every edge whose insertion returns Ok(true), the
\* same insertion repeated at once returns Ok(false) and leaves the graph as
\* the first insertion left it.
C4_InsertTwice ==
    \A from \in Ports, to \in Ports :
       LET first == try_insert_edge(nodes, from, to)
           second == try_insert_edge(first.g, from, to)
       IN  first.res = "Ok(true)" =>
              /\ second.res = "Ok(false)"
              /\ second.g = first.g
              /\ <<from[1], from[2], to[1], to[2]>> \in Edges(first.g)

\* A redundant insertion has just been answered with Ok(false): the edge was
\* already stored.
C4_Witness ==
    /\ last.op = "try_insert_edge"
    /\ last.res = "Ok(false)"
    /\ last.to \in Succ(nodes, last.from)

\* C5: whenever both ports exist and the node of from is reachable from the
\* node of to along one or more stored edges, try_insert_edge(from, to) returns
\* Err(true), the cycle error, and the graph stays as it was.
C5_CycleRejected ==
    \A from \in Ports, to \in Ports :
       (/\ PortsExist(nodes, from, to)
        /\ from[1] \in ReachFrom(nodes, Succ(nodes, to[1])))
       => try_insert_edge(nodes, from, to) = [g |-> nodes, res |-> "Err(true)"]

\* An edge between two different nodes has just been rejected as a cycle
\* that runs over a path of two stored edges at least.
C5_Witness ==
    /\ last.op = "try_insert_edge"
    /\ last.res = "Err(true)"
    /\ last.from # last.to
    /\ last.from \notin Succ(nodes, last.to)
    /\ last.from \in ReachFrom(nodes, Succ(nodes, last.to))

\* C6: an edge from a forward port of a node to a backward port of the same
\* node is rejected with Err(true), the cycle error, and nothing is stored.
C6_SelfEdgeRejected ==
    \A from \in Ports, to \in Ports :
       (PortsExist(nodes, from, to) /\ from[1] = to[1])
       => try_insert_edge(nodes, from, to) = [g |-> nodes, res |-> "Err(true)"]

\* An edge from a node to itself has just been rejected although the node
\* lies on no stored path back to itself.
C6_Witness ==
    /\ last.op = "try_insert_edge"
    /\ last.res = "Err(true)"
    /\ last.from = last.to
    /\ last.from \notin ReachFrom(nodes, Succ(nodes, last.from))

\* C7: when the node of from, the forward port of from, the node of to or the
\* backward port of to does not exist, try_insert_edge returns Err(false), the
\* missing-port error, as a value and the graph stays as it was.
C7_PortMissing ==
    \A from \in Ports, to \in Ports :
       ~ PortsExist(nodes, from, to)
       => try_insert_edge(nodes, from, to) = [g |-> nodes, res |-> "Err(false)"]

\* An insertion has just been answered with Err(false) in a graph that holds
\* both nodes of the edge and already stores an edge: only a port was missing.
C7_Witness ==
    /\ last.op = "try_insert_edge"
    /\ last.res = "Err(false)"
    /\ last.from \in DOMAIN nodes
    /\ last.to \in DOMAIN nodes
    /\ Edges(nodes) # {}


(***************************************************************************)
(* Properties of the compiled schedule (graph.rs, SpecCompile).            *)
(***************************************************************************)
Compiled == cres.done /\ ~ cres.panic

NodeTasks == {k \in 1 .. Len(cres.schedule) : cres.schedule[k].type = "Node"}

SumTasks == {k \in 1 .. Len(cres.schedule) : cres.schedule[k].type = "Sum"}

\* The nodes the schedule holds a task for.
Scheduled == {cres.schedule[k].id : k \in NodeTasks}

\* Every index written in task.
TaskIndices(task) ==
    IF task.type = "Sum"
    THEN {task.left, task.right, task.output}
    ELSE Range(task.inputs) \cup Range(task.outputs)

\* The scheduled nodes that read output port p of node id.
Readers(id, p) == {e[1] : e \in {x \in Edges(nodes) : x[3] = id /\ x[4] = p}} \cap Scheduled

\* C1 as stated: every index of a returned schedule is below num_buffers.
C1_AllIndicesBelow ==
    Compiled =>
       \A k \in 1 .. Len(cres.schedule) :
          \A i \in TaskIndices(cres.schedule[k]) : i < cres.num_buffers

\* C1, amended: in a returned schedule every index of a Sum task and every
\* input index of a Node task is below num_buffers, and every output index of a
\* Node task is below num_buffers unless it is usize::MAX, which stands only at
\* an output port that feeds no scheduled node.
C1_IndicesBelowOrUnused ==
    Compiled =>
       /\ \A k \in SumTasks :
             \A i \in TaskIndices(cres.schedule[k]) : i < cres.num_buffers
       /\ \A k \in NodeTasks :
             LET task == cres.schedule[k]
             IN  /\ \A p \in DOMAIN task.inputs : task.inputs[p] < cres.num_buffers
                 /\ \A p \in DOMAIN task.outputs :
                       \/ task.outputs[p] < cres.num_buffers
                       \/ task.outputs[p] = UsizeMax /\ Readers(task.id, p) = {}

\* A returned schedule that sums two buffers and also holds a node with an
\* output port nothing reads.
C1_Witness ==
    /\ Compiled
    /\ cres.num_buffers >= 2
    /\ SumTasks # {}
    /\ \E k \in NodeTasks : UsizeMax \in Range(cres.schedule[k].outputs)

\* C2: once a returned schedule has been executed, every node found at each
\* of its input ports the sum of the signals of exactly the output ports
\* connected to that input, each signal once and nothing else.
C2_InputsAreSums ==
    (Compiled /\ seen.done) =>
       /\ ~ seen.panic
       /\ \A k \in NodeTasks :
             LET task == cres.schedule[k]
             IN  \A p \in DOMAIN task.inputs :
                    seen.seen[k][p] =
                       [set |-> PortPairs(nodes[task.id].forward_ports[p]), ok |-> TRUE]

\* The nodes the roots depend on: the roots and every node that stored edges
\* lead to from a root.
Needed == ReachFrom(nodes, cres.roots \cap DOMAIN nodes)

\* The positions of the tasks of node n.
TasksOf(n) == {k \in NodeTasks : cres.schedule[k].id = n}

\* C9: in a returned schedule every node the roots depend on has exactly one
\* Node task, and that task stands after the Node task of every node that
\* feeds one of its inputs.
C9_OnceAndAfterFeeders ==
    Compiled =>
       \A n \in Needed :
          /\ Cardinality(TasksOf(n)) = 1
          /\ \A m \in Succ(nodes, n) :
                \A kn \in TasksOf(n) : \E km \in TasksOf(m) : km < kn

\* A schedule returned for two roots that hold no edge themselves and share a
\* node that feeds both.
C9_Witness ==
    /\ Compiled
    /\ Cardinality(cres.roots) = 2
    /\ Cardinality(NodeTasks) = 3
    /\ \E m \in DOMAIN nodes \ cres.roots :
          \A r \in cres.roots : m \in Succ(nodes, r)

\* The graph without node u and without the edges that end on u.
WithoutNode(g, u) ==
    [n \in (DOMAIN g) \ {u} |->
        [g[n] EXCEPT !.forward_ports =
            [f \in DOMAIN @ |-> MapDel(@[f], u)]]]

\* C10: a node no root depends on has no task in a returned schedule, and
\* compile yields the same outcomes (schedule and num_buffers, whatever the
\* iteration order) for the graph with that node and for the graph without it.
C10_UnreachedIgnored ==
    (cres.done /\ ~ seen.done) =>
       /\ ~ cres.panic => Scheduled \subseteq Needed
       /\ \A u \in (DOMAIN nodes) \ Needed :
             compile(nodes, cres.roots) = compile(WithoutNode(nodes, u), cres.roots)

\* A returned schedule of two tasks at least for a graph that also holds a
\* node no root depends on, which itself reads from a scheduled node.
C10_Witness ==
    /\ Compiled
    /\ Cardinality(NodeTasks) >= 2
    /\ \E u \in (DOMAIN nodes) \ Needed : Succ(nodes, u) \cap Scheduled # {}

\* C11: in a returned schedule the connected output ports of a Node task hold
\* pairwise different buffers (usize::MAX, the mark of a port nothing reads, is
\* no buffer).
C11_OutputsDistinct ==
    Compiled =>
       \A k \in NodeTasks :
          LET outputs == cres.schedule[k].outputs
          IN  \A p \in DOMAIN outputs, q \in DOMAIN outputs :
                 (p # q /\ outputs[p] # UsizeMax) => outputs[p] # outputs[q]

\* C12: compile returns a schedule, without a failed unwrap or assertion, for
\* every graph the insertion calls build and every set of roots taken from
\* its nodes.
C12_CompileReturns == (cres.done /\ cres.roots \subseteq DOMAIN nodes) => ~ cres.panic

\* C13: compile called with no root, or with roots none of which is a node of
\* the graph, returns the empty schedule.
C13_MissingRootsEmpty ==
    (cres.done /\ cres.roots \cap DOMAIN nodes = {})
    => (~ cres.panic /\ cres.schedule = <<>>)

\* The buffers a task writes.
Writes(task) ==
    IF task.type = "Sum" THEN {task.output} ELSE Range(task.outputs) \ {UsizeMax}

\* The position of the last task before position pos that writes buffer buf,
\* 0 when there is none.
LastWriter(pos, buf) ==
    LET W == {t \in 1 .. (pos - 1) : buf \in Writes(cres.schedule[t])}
    IN  IF W = {} THEN 0 ELSE CHOOSE t \in W : \A u \in W : u <= t

\* The Sum tasks whose results flow into the value that buffer buf holds just
\* before position pos.
RECURSIVE SumChain(_, _)
SumChain(pos, buf) ==
    LET t == LastWriter(pos, buf)
    IN  IF t = 0 \/ cres.schedule[t].type = "Node"
        THEN {}
        ELSE {t} \cup SumChain(t, cres.schedule[t].left)
                 \cup SumChain(t, cres.schedule[t].right)

\* The nodes whose Node tasks wrote the values mixed into buffer buf just
\* before position pos; None stands for a buffer nothing wrote.
RECURSIVE ChainNodes(_, _)
ChainNodes(pos, buf) ==
    LET t == LastWriter(pos, buf)
    IN  IF t = 0 THEN {None}
        ELSE IF cres.schedule[t].type = "Node" THEN {cres.schedule[t].id}
        ELSE ChainNodes(t, cres.schedule[t].left) \cup ChainNodes(t, cres.schedule[t].right)

\* The output ports that feed input port p of node n.
Sources(n, p) == PortPairs(nodes[n].forward_ports[p])

\* The graph is the adder: two nodes with one output port each and nothing
\* else, both feeding the single input port of master m, the only root.
IsAdder(m) ==
    /\ DOMAIN nodes = NodeIDs
    /\ cres.roots = {m}
    /\ nodes[m].backward_port_ids = {}
    /\ DOMAIN nodes[m].forward_ports = {0}
    /\ Sources(m, 0) = {<<a, 0>> : a \in NodeIDs \ {m}}
    /\ \A a \in NodeIDs \ {m} :
          nodes[a] = NodeNew({0}, {})

\* C14: in a returned schedule, for every input port that k >= 2 output ports
\* feed, exactly k - 1 Sum tasks flow into the buffer the sink reads, the last
\* task that wrote this buffer before the sink's task is one of them, the
\* values they mix were written by the Node tasks of the feeding nodes, and no
\* other Sum task exists; for the adder the schedule is [Node(a, [], [0]),
\* Node(b, [], [1]), Sum(1, 0, 0), Node(master, [0], [])] with two buffers.
C14_SumsPerPort ==
    Compiled =>
       /\ \A kn \in NodeTasks :
             LET task == cres.schedule[kn]
             IN  \A p \in DOMAIN task.inputs :
                    LET k == Cardinality(Sources(task.id, p))
                    IN  k >= 2 =>
                          /\ Cardinality(SumChain(kn, task.inputs[p])) = k - 1
                          /\ LastWriter(kn, task.inputs[p]) \in SumTasks
                          /\ ChainNodes(kn, task.inputs[p])
                                = {src[1] : src \in Sources(task.id, p)}
       /\ SumTasks =
             UNION {UNION {SumChain(kn, cres.schedule[kn].inputs[p])
                           : p \in DOMAIN cres.schedule[kn].inputs}
                    : kn \in NodeTasks}
       /\ \A m \in NodeIDs :
             IsAdder(m) =>
                /\ cres.num_buffers = 2
                /\ \E a \in NodeIDs \ {m} : \E b \in NodeIDs \ {m, a} :
                      cres.schedule = <<TaskNode(a, EmptyMap, (0 :> 0)),
                                        TaskNode(b, EmptyMap, (0 :> 1)),
                                        TaskSum(1, 0, 0),
                                        TaskNode(m, (0 :> 0), EmptyMap)>>

\* The sequences of two or more different nodes.
ChainSeqs ==
    {c \in UNION {[1 .. L -> NodeIDs] : L \in 2 .. MaxNodes} :
        \A i \in DOMAIN c, j \in DOMAIN c : i # j => c[i] # c[j]}

\* c is a linear chain that ends in the master, the only root: the first
\* node is a source (no input port, one output port), every later node has
\* one input port fed by the output port of the node before it, every node
\* but the master has one output port, the master has none.
IsChain(c) ==
    /\ Range(c) \subseteq DOMAIN nodes
    /\ cres.roots = {c[Len(c)]}
    /\ DOMAIN nodes[c[1]].forward_ports = {}
    /\ \A i \in 2 .. Len(c) :
          /\ DOMAIN nodes[c[i]].forward_ports = {0}
          /\ Sources(c[i], 0) = {<<c[i - 1], 0>>}
    /\ \A i \in 1 .. (Len(c) - 1) : nodes[c[i]].backward_port_ids = {0}
    /\ nodes[c[Len(c)]].backward_port_ids = {}

\* C15: for a linear chain of n >= 1 nodes ending in the master (the first
\* node being a source, as in the scenarios of the specification), compile
\* returns num_buffers = 1 and n + 1 Node tasks in chain order, every input
\* and every output of which is buffer 0.
C15_ChainInPlace ==
    cres.done =>
       \A c \in ChainSeqs :
          IsChain(c) =>
             /\ ~ cres.panic
             /\ cres.num_buffers = 1
             /\ cres.schedule =
                   [i \in 1 .. Len(c) |->
                       TaskNode(c[i],
                                IF i = 1 THEN EmptyMap ELSE (0 :> 0),
                                IF i = Len(c) THEN EmptyMap ELSE (0 :> 0))]

\* A chain of three nodes (n = 2) has been compiled.
C15_Witness ==
    /\ Compiled
    /\ Len(cres.schedule) = 3
    /\ \E c \in ChainSeqs : Len(c) = 3 /\ IsChain(c)

\* The M-graph is complete and has been compiled for its three masters.
MGraphCompiled ==
    /\ cres.done
    /\ cres.roots = MGraphMasterIDs
    /\ DOMAIN nodes = MGraphNodeIDs
    /\ Edges(nodes) = {<<e[1], 0, e[2], 0>> : e \in MGraphEdges}

\* C16: for the M-graph and its three masters as roots compile always
\* returns, the numbers of buffers it may return over all iteration orders are
\* 2 and 3, both of them, and whichever schedule is executed every master
\* finds at its input the sum of the sources connected to it.
C16_MGraph ==
    MGraphCompiled =>
       /\ ~ cres.panic
       /\ {r.num_buffers : r \in compile(nodes, cres.roots)} = {2, 3}
       /\ seen.done =>
             /\ ~ seen.panic
             /\ \A k \in NodeTasks :
                   LET task == cres.schedule[k]
                   IN  \A p \in DOMAIN task.inputs :
                          seen.seen[k][p] =
                             [set |-> Sources(task.id, p), ok |-> TRUE]

\* A schedule of the M-graph that needs three buffers has been executed.
C16_Witness ==
    /\ MGraphCompiled
    /\ seen.done
    /\ cres.num_buffers = 3
    /\ SumTasks # {}


(***************************************************************************)
(* Properties of the index-based graph (io.rs, SpecIO).                    *)
(*                                                                         *)
(* The Global node feeds the graph through its input side and is fed       *)
(* through its output side; the two sides are different ends, so a path    *)
(* never runs through Global and a cycle runs over processors only.        *)
(***************************************************************************)
\* The processors that processor i holds a reference to.
IoSucc(g, i) ==
    {e[3].node_index[2] :
        e \in {x \in IoEdges(g) : x[1] = Processor(i) /\ x[3].node_index # Global}}

RECURSIVE IoReachFrom(_, _)
IoReachFrom(g, S) ==
    LET T == S \cup UNION {IoSucc(g, i) : i \in {j \in S : j < Len(g.processors)}}
    IN  IF T = S THEN S ELSE IoReachFrom(g, T)

\* C3: after every sequence of calls the stored edges form no cycle: no
\* processor lies on a path of stored edges that leads back to it.
C3_Acyclic ==
    \A i \in 0 .. (Len(io.processors) - 1) : i \notin IoReachFrom(io, IoSucc(io, i))

\* C8: after every sequence of calls every stored edge names a node that
\* exists and a port that this node has.
C8_EdgesValid ==
    \A e \in IoEdges(io) :
       /\ get_node(io, e[3].node_index).some
       /\ e[3].index < get_node(io, e[3].node_index).io.num_opposite_ports


(***************************************************************************)
(* Properties of the index-based scheduler and of process (SpecSchedule).  *)
(***************************************************************************)
IoCompiled == cres.done /\ ~ cres.panic

\* The buffers a task names, position by position.
IoRefs(task) ==
    IF task.type = "Sum" THEN <<task.left_input, task.right_input, task.output>>
    ELSE IF task.type = "Process" THEN task.inputs \o task.outputs
    ELSE <<task.input>>

LocalsOf(sched) ==
    {b[2] : b \in {x \in UNION {Range(IoRefs(sched[k])) : k \in DOMAIN sched} :
                      x[1] = "Local"}}

\* The master outputs that claim the local buffer i when scheduling ends:
\* the outputs its final value feeds.
MastersOf(i) ==
    {j \in 0 .. (Len(io.global.ports) - 1) :
        /\ PortNew(j, Global) \in DOMAIN cres.claims
        /\ cres.claims[PortNew(j, Global)] = Local(i)}

ReplacedLocals == {i \in 0 .. (cres.allocated - 1) : MastersOf(i) # {}}

\* C17: in the compiled schedule every reference to a local buffer whose
\* final value feeds exactly one master output names that master slot
\* instead, every other local buffer keeps its rank among the buffers that
\* are not replaced, so that the local indices of the schedule are exactly
\* 0 .. num_buffers - 1, and num_buffers is the number of allocated buffers
\* less the replaced ones; a graph whose only edge runs from a processor
\* output to a master output needs no intermediate buffer.
C17_MasterReplacement ==
    IoCompiled =>
       /\ Len(cres.schedule) >= Len(cres.raw)
       /\ \A k \in DOMAIN cres.raw :
             /\ cres.schedule[k].type = cres.raw[k].type
             /\ DOMAIN IoRefs(cres.schedule[k]) = DOMAIN IoRefs(cres.raw[k])
             /\ \A p \in DOMAIN IoRefs(cres.raw[k]) :
                   LET b  == IoRefs(cres.raw[k])[p]
                       b2 == IoRefs(cres.schedule[k])[p]
                   IN  IF b[1] # "Local" THEN b2 = b
                       ELSE IF Cardinality(MastersOf(b[2])) = 1
                       THEN \E j \in MastersOf(b[2]) : b2 = Master(j)
                       ELSE IF MastersOf(b[2]) # {}
                       THEN b2[1] = "Master" /\ b2[2] \in MastersOf(b[2])
                       ELSE b2 = Local(Cardinality({i \in 0 .. (b[2] - 1) :
                                                       i \notin ReplacedLocals}))
       /\ \A k \in (DOMAIN cres.schedule) \ (DOMAIN cres.raw) :
             cres.schedule[k].type = "CopyToMasterOutput"
       /\ LocalsOf(cres.schedule) = 0 .. (cres.num_buffers - 1)
       /\ cres.num_buffers = cres.allocated - Cardinality(ReplacedLocals)
       /\ (\E e \in IoEdges(io) :
              /\ IoEdges(io) = {e}
              /\ e[1] = Global
              /\ e[3].node_index # Global) => cres.num_buffers = 0

\* A schedule in which one local buffer became a master slot and another,
\* allocated after it, moved down to a smaller index.
C17_Witness ==
    /\ IoCompiled
    /\ \E k \in DOMAIN cres.raw : \E p \in DOMAIN IoRefs(cres.raw[k]) :
          LET b  == IoRefs(cres.raw[k])[p]
              b2 == IoRefs(cres.schedule[k])[p]
          IN  b[1] = "Local" /\ b2[1] = "Local" /\ b2[2] < b[2]
    /\ \E i \in ReplacedLocals : Cardinality(MastersOf(i)) = 1

\* The CopyToMasterOutput tasks of the schedule and where the first stands.
CopyTasks ==
    {cres.schedule[k] : k \in {x \in DOMAIN cres.schedule :
                                  cres.schedule[x].type = "CopyToMasterOutput"}}

CopiesAtEnd ==
    \A k \in DOMAIN cres.schedule, l \in DOMAIN cres.schedule :
       (cres.schedule[k].type = "CopyToMasterOutput" /\ k < l)
          => cres.schedule[l].type = "CopyToMasterOutput"

\* The master outputs that the final value of the buffer b feeds: those
\* whose claim is b when scheduling ends.
FedBy(b) ==
    {j \in 0 .. (Len(io.global.ports) - 1) :
        /\ PortNew(j, Global) \in DOMAIN cres.claims
        /\ cres.claims[PortNew(j, Global)] = b}

\* The computed values and master inputs that feed two master outputs or more.
FanOutBuffers ==
    {b \in {Local(i) : i \in 0 .. (cres.allocated - 1)}
           \cup {SuperInput(i) : i \in 0 .. (io.global.num_opposite_ports - 1)} :
        Cardinality(FedBy(b)) >= 2}

LeastOf(S) == CHOOSE j \in S : \A k \in S : j <= k

\* The master slot that holds a computed value after the rewrite, or the
\* master input itself.
ValueBuffer(b) == IF b[1] = "Local" THEN Master(LeastOf(FedBy(b))) ELSE b

\* The sum of the signals of the output ports stored in ports.
SumOfSources(ports) ==
    [set |-> {<<port.node_index, port.index>> : port \in iter_ports(ports)},
     ok  |-> TRUE]

\* After process has returned, every master output with a source holds the
\* sum of its sources, and every processor has read, on each of its inputs,
\* the sum of the sources of that input.
MastersHoldSums ==
    seen.done =>
       /\ \A j \in 1 .. Len(io.global.ports) :
             DOMAIN io.global.ports[j] # {}
                => seen.bufs[Master(j - 1)] = SumOfSources(io.global.ports[j])
       /\ \A k \in DOMAIN cres.schedule :
             cres.schedule[k].type = "Process"
                => LET node == get_node(io, Processor(cres.schedule[k].index)).io
                   IN  /\ DOMAIN seen.reads[k] = DOMAIN node.ports
                       /\ \A q \in DOMAIN node.ports :
                             seen.reads[k][q] = SumOfSources(node.ports[q])

\* C18 as stated: when a computed value or a master input feeds two master
\* outputs or more, the schedule ends with a CopyToMasterOutput task that
\* reads the buffer of the value and whose outputs are exactly the master
\* outputs the value feeds, and after execution every connected master
\* output holds the sum of its sources.
C18_CopyToAllFed ==
    IoCompiled =>
       /\ CopiesAtEnd
       /\ \A b \in FanOutBuffers :
             \E t \in CopyTasks : t.input = ValueBuffer(b) /\ t.outputs = FedBy(b)
       /\ MastersHoldSums

\* C18, amended: a computed value is written into the lowest master output
\* it feeds, and the CopyToMasterOutput task that reads this master slot
\* copies it to the other master outputs the value feeds; a master input is
\* copied to every master output it feeds.  The CopyToMasterOutput tasks are
\* the last tasks of the schedule, and after execution every connected
\* master output holds the sum of its sources.
C18_CopyToOthers ==
    IoCompiled =>
       /\ CopiesAtEnd
       /\ \A b \in FanOutBuffers :
             \E t \in CopyTasks :
                /\ t.input = ValueBuffer(b)
                /\ t.outputs = IF b[1] = "Local"
                               THEN FedBy(b) \ {LeastOf(FedBy(b))}
                               ELSE FedBy(b)
       /\ MastersHoldSums

\* process has returned for a schedule in which the output of a processor
\* feeds both master outputs.
C18_Witness ==
    /\ IoCompiled
    /\ seen.done
    /\ \E b \in FanOutBuffers : b[1] = "Local"
    /\ \E t \in CopyTasks : t.input[1] = "Master"

LookedUpMap ==
    IF ioLast.op = "input" THEN io[Len(io)].inputs ELSE io[Len(io)].outputs

\* The buffer the index i designates at level d: slot i[2] of the pool of
\* the level for a local index, the buffer of port i[2] of the parent for a
\* super index.
RECURSIVE Designated(_, _)
Designated(d, i) ==
    IF i[1] = "Local" THEN DispOk(<<d, i[2]>>)
    ELSE IF i[1] = "SuperInput" THEN DispOk(Designated(d - 1, io[d - 1].inputs[i[2] + 1]).buf)
    ELSE DispOk(Designated(d - 1, io[d - 1].outputs[i[2] + 1]).buf)

\* The index i names a buffer that exists: a slot of the pool, or a port of
\* the parent that exists, is connected and names a buffer that exists.
RECURSIVE Exists(_, _)
Exists(d, i) ==
    IF i[1] = "Local" THEN i[2] < io[d].pool
    ELSE LET map == IF d = 1 THEN <<>>
                    ELSE IF i[1] = "SuperInput" THEN io[d - 1].inputs
                    ELSE io[d - 1].outputs
         IN  /\ i[2] < Len(map)
             /\ map[i[2] + 1] # NoBuf
             /\ Exists(d - 1, map[i[2] + 1])

\* C20: a lookup for port index k returns OutOfBounds exactly when k is not
\* less than the number of ports of the local map, Unused exactly when k is
\* in range and the port has no connection, and otherwise the buffer that
\* the index of the port designates.
C20_LookupCases ==
    ioLast.op \in {"input", "output"} =>
       /\ ioLast.res.kind = "OOB" <=> ioLast.k >= Len(LookedUpMap)
       /\ ioLast.res.kind = "Empty"
             <=> (ioLast.k < Len(LookedUpMap) /\ LookedUpMap[ioLast.k + 1] = NoBuf)
       /\ (ioLast.k < Len(LookedUpMap) /\ LookedUpMap[ioLast.k + 1] # NoBuf)
             => /\ ioLast.res.kind = "Ok"
                /\ Exists(Len(io), LookedUpMap[ioLast.k + 1])
                /\ ioLast.res = Designated(Len(io), LookedUpMap[ioLast.k + 1])

\* C21: no lookup panics: for every port index and every configuration of
\* the maps of the handle and of its parent, the lookup yields a buffer or
\* one of the error values OutOfBounds and Unused.
C21_LookupNeverPanics ==
    ioLast.op \in {"input", "output"} => ioLast.res.kind \in {"Ok", "OOB", "Empty"}

(***************************************************************************)
(* Properties of edge removal (SpecEdges).                                 *)
(***************************************************************************)
\* The reference the edge from -> to is stored as: the input to holds from.
StoredEdge(from, to) == <<to.node_index, to.index, from>>

\* C22: when both ports of the edge exist, remove_edge reports "not newly
\* removed" and leaves the graph unchanged if the edge is not in the graph,
\* and reports "newly removed" and takes exactly this edge out if it is; the
\* edge is absent afterwards, so that removing it again reports "not newly
\* removed".
C22_RemoveEdge ==
    (ioLast.op = "remove_edge" /\ edge_found(ioLast.before, ioLast.to, ioLast.from)) =>
       LET e == StoredEdge(ioLast.from, ioLast.to)
       IN  /\ e \notin IoEdges(io)
           /\ IF e \in IoEdges(ioLast.before)
              THEN /\ ioLast.res = "Ok(true)"
                   /\ IoEdges(io) = IoEdges(ioLast.before) \ {e}
              ELSE /\ ioLast.res = "Ok(false)"
                   /\ io = ioLast.before


(***************************************************************************)
(* Properties of node identifiers (SpecIds).                               *)
(***************************************************************************)
\* What the caller of insert_processor asked for, as far as the graph keeps
\* it: the number of ports on either side of the processor at an index, or
\* NoShape where there is no processor.
NoShape == <<FALSE, 0, 0>>

ShapeAt(g, index) ==
    IF index < Len(g.processors) /\ g.processors[index + 1].some
    THEN <<TRUE, Len(g.processors[index + 1].io.ports),
           g.processors[index + 1].io.num_opposite_ports>>
    ELSE NoShape

\* C23: the index returned by an insertion names no processor of the graph
\* the call found, and after an insertion or a removal that returned, every
\* index other than the one inserted or removed names the processor it named
\* before the call.
C23_StableIds ==
    /\ ioLast.op = "insert_processor" =>
          /\ ShapeAt(ioLast.before, ioLast.res) = NoShape
          /\ ShapeAt(io, ioLast.res) # NoShape
          /\ \A j \in 0 .. (IdProcessors - 1) :
                j # ioLast.res => ShapeAt(io, j) = ShapeAt(ioLast.before, j)
    /\ (ioLast.op = "remove_processor" /\ ~ ioLast.panic) =>
          \A j \in 0 .. (IdProcessors - 1) :
             j # ioLast.index => ShapeAt(io, j) = ShapeAt(ioLast.before, j)


(***************************************************************************)
(* Properties of the lender (SpecLender).                                  *)
(***************************************************************************)
\* What lendee id has taken out of its ring, followed by what waits in it.
Delivered(id) == io.rings[id].got \o io.rings[id].queue

\* C24: for every lendee, the assets it has received followed by the assets
\* queued for it are the assets lent since it was created, in the order of
\* the calls of lend and each once; while a call of lend is running, the
\* asset of that call may still be missing at the end.
C24_DeliveredInOrder ==
    \A id \in LendeeIds :
       io.rings[id].consumer =>
          LET owed == io.rings[id].owed
          IN  \/ Delivered(id) = owed
              \/ /\ io.pc = "lend"
                 /\ owed # <<>>
                 /\ Delivered(id) = SubSeq(owed, 1, Len(owed) - 1)


Assets == 1 .. MaxLends

\* C25: an asset that a ring contains or a lendee holds is also held on the
\* lender's thread, so its last reference is never dropped by a lendee;
\* cleanup drops from the retained list only assets that no ring contains
\* and no lendee holds, and it drops every such asset.
C25_CleanupReleases ==
    /\ \A a \in Assets : ConsumerRefs(io, a) > 0 => LenderRefs(io, a) > 0
    /\ ioLast.op = "cleanup_lent" =>
          \A a \in Range(ioLast.before.lent) :
             (a \notin Range(io.lent)) <=> (ConsumerRefs(ioLast.before, a) = 0)


\* C26: recv_latest returns None exactly when the queue of the lendee is
\* empty at the call, and then changes nothing; otherwise it returns the
\* asset lent last among the queued ones, leaves the queue empty, and of the
\* queued assets the lendee holds only the returned one afterwards: the
\* reference to every older one is gone.
C26_RecvLatest ==
    ioLast.op = "recv_latest" =>
       LET before == ioLast.before.rings[ioLast.id]
           after  == io.rings[ioLast.id]
       IN  /\ (ioLast.res = NoAsset) <=> (before.queue = <<>>)
           /\ before.queue = <<>> => after = before
           /\ before.queue # <<>> =>
                 /\ ioLast.res \in Range(before.queue)
                 /\ \A a \in Range(before.queue) : a <= ioLast.res
                 /\ after.queue = <<>>
                 /\ after.held = before.held \cup {ioLast.res}
                 /\ \A a \in Range(before.queue) \ {ioLast.res} :
                       ConsumerRefs(io, a) = ConsumerRefs(ioLast.before, a) - 1
                 /\ ConsumerRefs(io, ioLast.res) =
                       ConsumerRefs(ioLast.before, ioLast.res)

\* recv_latest has found more than one asset in the queue.
C26_Witness ==
    /\ ioLast.op = "recv_latest"
    /\ Len(ioLast.before.rings[ioLast.id].queue) >= 2
    /\ ioLast.res = 2


(***************************************************************************)
(* Properties of move_state (SpecMove).                                    *)
(***************************************************************************)
ValidPosition(x) == x[1] \in ClusterIndices /\ x[2] \in Voices

\* Everything that belongs to voice l of cluster c in the oscillator o: the
\* two SIMD lanes 2l and 2l + 1 of every vector, and the oscillators of the
\* voice.
PairOf(vector, l) == <<vector[2 * l], vector[2 * l + 1]>>

LaneState(o, c, l) ==
    [smoothers       |-> [f \in ParamFields |->
                            <<PairOf(o.params[c].smoothers[f].current, l),
                              PairOf(o.params[c].smoothers[f].target, l)>>],
     phase_delta     |-> PairOf(o.params[c].phase_delta, l),
     normal_weights  |-> <<PairOf(o.clusters[c].normal_weights.value, l),
                           PairOf(o.clusters[c].normal_weights.increment, l)>>,
     flipped_weights |-> <<PairOf(o.clusters[c].flipped_weights.value, l),
                           PairOf(o.clusters[c].flipped_weights.increment, l)>>,
     voices          |-> o.clusters[c].voices[l]]

\* The cluster state of the oscillator, without the count of calls.
ClusterState(o) == [clusters |-> o.clusters, params |-> o.params]

\* C27: for all valid positions x and y, after move_state(x, y) followed by
\* move_state(y, x) every cluster and every parameter record, the active
\* masks included, is what it was before the two calls.
C27_MoveBackIdentity ==
    (/\ ioLast.op = "move_state" /\ ioLast.prev.op = "move_state"
     /\ ValidPosition(ioLast.from) /\ ValidPosition(ioLast.to)
     /\ ioLast.from = ioLast.prev.to /\ ioLast.to = ioLast.prev.from)
    => /\ ~ ioLast.panic /\ ~ ioLast.prev.panic
       /\ ClusterState(io) = ClusterState(ioLast.prev.before)

\* A move between different lanes of different clusters has been undone by
\* the opposite move, and the first move had changed the state.
C27_Witness ==
    /\ ioLast.op = "move_state" /\ ioLast.prev.op = "move_state"
    /\ ValidPosition(ioLast.from) /\ ValidPosition(ioLast.to)
    /\ ioLast.from = ioLast.prev.to /\ ioLast.to = ioLast.prev.from
    /\ ioLast.from[1] # ioLast.to[1] /\ ioLast.from[2] # ioLast.to[2]
    /\ ClusterState(ioLast.before) # ClusterState(ioLast.prev.before)
    /\ ClusterState(io) = ClusterState(ioLast.prev.before)

\* C28: after move_state((c1, l1), (c2, l2)) on valid positions, lanes 2*l1
\* and 2*l1 + 1 of c1 hold what lanes 2*l2 and 2*l2 + 1 of c2 held and the
\* other way round, and every other lane of every cluster holds what it held.
C28_ExchangesLanes ==
    (/\ ioLast.op = "move_state"
     /\ ValidPosition(ioLast.from) /\ ValidPosition(ioLast.to))
    => LET c1 == ioLast.from[1]
           l1 == ioLast.from[2]
           c2 == ioLast.to[1]
           l2 == ioLast.to[2]
       IN  /\ ~ ioLast.panic
           /\ LaneState(io, c1, l1) = LaneState(ioLast.before, c2, l2)
           /\ LaneState(io, c2, l2) = LaneState(ioLast.before, c1, l1)
           /\ \A c \in ClusterIndices, l \in Voices :
                 (<<c, l>> # <<c1, l1>> /\ <<c, l>> # <<c2, l2>>) =>
                    LaneState(io, c, l) = LaneState(ioLast.before, c, l)
           /\ \A c \in ClusterIndices :
                 io.clusters[c].active_voice_mask =
                    ioLast.before.clusters[c].active_voice_mask

\* C29: move_state with the same valid position as source and destination
\* returns without panic and leaves the cluster state as it was.
C29_SamePosition ==
    (/\ ioLast.op = "move_state"
     /\ ValidPosition(ioLast.from)
     /\ ioLast.from = ioLast.to)
    => /\ ~ ioLast.panic
       /\ ClusterState(io) = ClusterState(ioLast.before)

\* move_state from a position to itself has been called in a state that an
\* earlier move had changed.
C29_Witness ==
    /\ ioLast.op = "move_state"
    /\ ValidPosition(ioLast.from)
    /\ ioLast.from = ioLast.to
    /\ ~ ioLast.panic
    /\ ClusterState(ioLast.before) # ClusterState(InitialOsc)
    /\ ClusterState(io) = ClusterState(ioLast.before)

\* C30: a safe move_state (of the oscillator, of a cluster, of a parameter
\* record) that is given a voice index outside 0 .. K - 1, or a cluster index
\* that does not exist, returns without panic and changes nothing.
C30_OutOfBoundsNoOp ==
    (/\ ioLast.op \in {"move_state", "cluster_move_state", "params_move_state"}
     /\ ~ (ValidPosition(ioLast.from) /\ ValidPosition(ioLast.to)))
    => /\ ~ ioLast.panic
       /\ ClusterState(io) = ClusterState(ioLast.before)


(***************************************************************************)
(* Further properties of the lender (SpecLender).                          *)
(***************************************************************************)
\* C36: no call of lend panics, whatever the lendees have left unreceived in
\* their rings and whether or not a dropped Lendee has been cleaned up.
C36_LendCompletes ==
    ioLast.op = "lend" => io.pc # "panicked"


(***************************************************************************)
(* Further properties of edge removal (SpecEdges).                         *)
(***************************************************************************)
\* C39: after remove_edge(from, to), whatever it returns, every stored edge
\* other than (from, to) is still stored, and when (from, to) was not stored
\* the stored edges are the same as before.
C39_RemovesOnlyThatEdge ==
    ioLast.op = "remove_edge" =>
       LET e == StoredEdge(ioLast.from, ioLast.to)
       IN  /\ (IoEdges(ioLast.before) \ {e}) \subseteq IoEdges(io)
           /\ e \notin IoEdges(ioLast.before) =>
                 IoEdges(io) = IoEdges(ioLast.before)


(***************************************************************************)
(* Further properties of the scheduler of graph.rs (SpecCompile).          *)
(***************************************************************************)
\* The buffers a task reads.
Reads(task) ==
    IF task.type = "Sum" THEN {task.left, task.right} ELSE Range(task.inputs)

\* How many times task reads buffer buf.
ReadCount(task, buf) ==
    IF task.type = "Sum"
    THEN (IF task.left = buf THEN 1 ELSE 0) + (IF task.right = buf THEN 1 ELSE 0)
    ELSE Cardinality({p \in DOMAIN task.inputs : task.inputs[p] = buf})

\* The reads of buffer buf by the tasks at positions from .. to.
RECURSIVE ReadsBetween(_, _, _)
ReadsBetween(from, to, buf) ==
    IF from > to THEN 0
    ELSE ReadCount(cres.schedule[from], buf) + ReadsBetween(from + 1, to, buf)

\* The value that task t wrote into buffer buf for n consumers is not
\* overwritten before they have read it: when a later task writes buf again,
\* n reads of buf stand between the two writes, the reads of the overwriting
\* task included (a task reads before it writes).
ReadBeforeOverwritten(t, buf, n) ==
    \A w \in (t + 1) .. Len(cres.schedule) :
       (/\ buf \in Writes(cres.schedule[w])
        /\ \A v \in (t + 1) .. (w - 1) : buf \notin Writes(cres.schedule[v]))
       => ReadsBetween(t + 1, w, buf) >= n

\* The input ports of scheduled nodes that output port p of node id feeds.
Consumers(id, p) ==
    {e \in Edges(nodes) : e[3] = id /\ e[4] = p /\ e[1] \in Scheduled}

IsLeadingZeros(x, n) ==
    \/ n = 32 /\ x = <<0, 0>>
    \/ n < 16 /\ Pow2(15 - n) <= x[1] /\ x[1] < Pow2(16 - n)
    \/ n >= 16 /\ n < 32 /\ x[1] = 0 /\ Pow2(31 - n) <= x[2] /\ x[2] < Pow2(32 - n)

\* The natural number of a u32 below 2^31.
Value(x) == x[1] * Half + x[2]

\* C31: for every 32-bit phase_delta p the resampler selects
\* octaves = min(leading_zeros(p), NUM_OCTAVES) with NUM_OCTAVES = 11; p = 0
\* selects NUM_OCTAVES, and the selected value never exceeds NUM_MIPMAPS - 1.
C31_Octaves ==
    ioLast.op # "initialize" =>
       /\ NUM_OCTAVES = 11
       /\ \E n \in 0 .. 32 :
             /\ IsLeadingZeros(ioLast.phase_delta, n)
             /\ ioLast.data.octaves = IF n < NUM_OCTAVES THEN n ELSE NUM_OCTAVES
       /\ ioLast.phase_delta = <<0, 0>> => ioLast.data.octaves = NUM_OCTAVES
       /\ ioLast.data.octaves <= NUM_MIPMAPS - 1

\* A phase_delta of zero and one with fewer than NUM_OCTAVES leading zeros
\* have both been resampled.
C31_Witness ==
    /\ ioLast.op = "resample"
    /\ ioLast.phase_delta = <<0, 0>>
    /\ ioLast.data.octaves = NUM_OCTAVES

\* C35: for every phase, every phase_delta and every frame < num_frames,
\* both gather indices, table_start + phase_a and table_start + phase_b with
\* table_start = (octaves + frame * NUM_MIPMAPS) * FRAME_LEN,
\* phase_a < FRAME_LEN and phase_b = (phase_a + 1) mod FRAME_LEN, lie inside
\* the table of num_frames * NUM_MIPMAPS * FRAME_LEN samples.
C35_IndicesInsideTable ==
    (/\ ioLast.op # "initialize"
     /\ ioLast.frame[1] = 0
     /\ ioLast.frame[2] < io.num_frames) =>
       LET d == ioLast.data
           table_start == (d.octaves + ioLast.frame[2] * NUM_MIPMAPS) * FRAME_LEN
           phase_a == Value(d.phase_a)
           phase_b == Value(d.phase_b)
           size == io.num_frames * NUM_MIPMAPS * FRAME_LEN
       IN  /\ d.table_start = U32(table_start)
           /\ phase_a < FRAME_LEN
           /\ phase_b = (phase_a + 1) % FRAME_LEN
           /\ d.start_idx = U32(table_start + phase_a)
           /\ d.end_idx = U32(table_start + phase_b)
           /\ table_start + phase_a < size
           /\ table_start + phase_b < size

\* The last sample of the last mipmap of the last frame has been gathered:
\* the first index is the last of the table and the second wraps to the
\* start of the mipmap.
C35_Witness ==
    /\ ioLast.op = "resample"
    /\ io.num_frames = MaxFrames
    /\ ioLast.frame = U32(MaxFrames - 1)
    /\ ioLast.data.octaves = NUM_OCTAVES
    /\ Value(ioLast.data.start_idx) = MaxFrames * NUM_MIPMAPS * FRAME_LEN - 1
    /\ Value(ioLast.data.end_idx) = MaxFrames * NUM_MIPMAPS * FRAME_LEN - FRAME_LEN

(***************************************************************************)
(* Properties of the delay lines.                                          *)
(***************************************************************************)
\* C32: a delay line of length N, fed one sample per step or in blocks,
\* has returned at step t the sample fed at step t - N for t >= N and the
\* default sample for t < N (steps counted from 0).
C32_DelayedByLength ==
    LET N == Len(io.line.buf)
    IN  /\ Len(io.out) = Len(io.fed)
        /\ \A t \in 1 .. Len(io.out) :
              io.out[t] = IF t > N THEN io.fed[t - N] ELSE DefaultSample

\* A block longer than twice the line has been fed to a line of length
\* two or more that was not at its start, and two different samples have
\* come out.
C32_Witness ==
    /\ Len(io.line.buf) >= 2
    /\ ioLast.op \in {"delay", "delay_slice", "process_buffer"}
    /\ Len(ioLast.block) > 2 * Len(io.line.buf)
    /\ Len(io.fed) > Len(ioLast.block)
    /\ {1, 2} \subseteq Range(io.out)

(***************************************************************************)
(* Properties of BufferList.                                               *)
(***************************************************************************)
\* Position i of the request is out of bounds, or repeats an earlier
\* position.
OutOfBoundsAt(i) == ioLast.indices[i] >= io.num_bufs

RepeatsAt(i) == \E j \in 1 .. (i - 1) : ioLast.indices[j] = ioLast.indices[i]

\* The answer gives access to exactly the requested buffers, one region of
\* the allocation each.
ExactlyRequested ==
    /\ ioLast.res = "Ok"
    /\ Len(ioLast.bufs) = Len(ioLast.indices)
    /\ \A i \in 1 .. Len(ioLast.indices) :
          ioLast.bufs[i] = [start |-> ioLast.indices[i] * io.samples_per_buf,
                            len |-> io.samples_per_buf]
    /\ \A i, j \in 1 .. Len(ioLast.bufs) :
          i # j /\ io.samples_per_buf > 0 =>
             \/ ioLast.bufs[i].start + ioLast.bufs[i].len <= ioLast.bufs[j].start
             \/ ioLast.bufs[j].start + ioLast.bufs[j].len <= ioLast.bufs[i].start

\* get_buf(i) is None exactly when i is not less than the number of buffers.
GetBufNoneOutside ==
    ioLast.op = "get_buf" =>
       /\ ioLast.res = "None" <=> ioLast.indices[1] >= io.num_bufs
       /\ ioLast.res = "Some" =>
             ioLast.bufs = <<[start |-> ioLast.indices[1] * io.samples_per_buf,
                              len |-> io.samples_per_buf]>>

\* C33 as stated: get_disjoint_mut returns IndexOutOfBounds when any
\* requested index is not less than the number of buffers, OverlappingIndices
\* when two requested indices are equal, and mutable access to exactly the
\* requested buffers otherwise; get_buf(i) is None exactly when i is not less
\* than the number of buffers.
C33_ErrorsAsStated ==
    /\ GetBufNoneOutside
    /\ ioLast.op = "get_disjoint_mut" =>
          LET P == DOMAIN ioLast.indices
          IN  IF \E i \in P : OutOfBoundsAt(i) THEN ioLast.res = "IndexOutOfBounds"
              ELSE IF \E i \in P : RepeatsAt(i) THEN ioLast.res = "OverlappingIndices"
              ELSE ExactlyRequested

\* C33 (amended): get_disjoint_mut reports the first requested index, in
\* order, that is out of bounds or equal to an earlier one: IndexOutOfBounds
\* when it is out of bounds, OverlappingIndices otherwise; when there is no
\* such index it gives mutable access to exactly the requested buffers.
\* get_buf(i) is None exactly when i is not less than the number of buffers.
C33_FirstOffender ==
    /\ GetBufNoneOutside
    /\ ioLast.op = "get_disjoint_mut" =>
          LET P == DOMAIN ioLast.indices
              Bad == {i \in P : OutOfBoundsAt(i) \/ RepeatsAt(i)}
          IN  IF Bad = {} THEN ExactlyRequested
              ELSE LET first == CHOOSE i \in Bad : \A k \in Bad : i <= k
                   IN  /\ ioLast.bufs = <<>>
                       /\ ioLast.res = IF OutOfBoundsAt(first) THEN "IndexOutOfBounds"
                                       ELSE "OverlappingIndices"

\* A request whose second index repeats the first and whose third is out of
\* bounds has been answered, and so has one of three different buffers.
C33_Witness ==
    /\ ioLast.op = "get_disjoint_mut"
    /\ Len(ioLast.indices) = 3
    /\ ioLast.indices[1] = ioLast.indices[2]
    /\ ioLast.indices[1] < io.num_bufs
    /\ ioLast.indices[3] >= io.num_bufs
    /\ ioLast.res = "OverlappingIndices"

(***************************************************************************)
(* Properties of StackVoiceManager.                                        *)
(***************************************************************************)
\* The stack position of (cluster, lane).
StackPosition(at) == at[1] * VoicesPerCluster + at[2]

\* The configured number of clusters and maximum polyphony.
max_num_clusters == Len(io.event_cache.mask_cache)

MaxPolyphony == max_num_clusters * VoicesPerCluster

\* The stack positions an Activate or Deactivate event addresses.
Addressed(event) ==
    {event.cluster_idx * VoicesPerCluster + j :
        j \in {k \in 0 .. (VoicesPerCluster - 1) : event.mask[2 * k + 1]}}

\* No note is held by two voices.
NoNoteTwice ==
    \A i, j \in 1 .. Len(io.voices) : i # j => io.voices[i] # io.voices[j]

\* Every Move of the last flush goes from a position that held a voice
\* before the flush to a lower position whose voice was freed in the flush.
MovesFillGaps ==
    LET before == ioLast.before[1]
    IN  \A e \in 1 .. Len(io.events) :
           io.events[e].type = "Move" =>
              LET from == StackPosition(io.events[e].from)
                  to == StackPosition(io.events[e].to)
              IN  /\ from < Len(before.voices)
                  /\ to < from
                  /\ before.voices[to + 1] \in Range(before.free_pending)

\* No Activate of the last flush addresses a position held by a voice of
\* another note.
ActivateOwnPosition ==
    \A e \in 1 .. Len(io.events) :
       io.events[e].type = "Activate" =>
          \A p \in Addressed(io.events[e]) :
             p < Len(io.voices) =>
                io.voices[p + 1] = io.events[e].note[2 * (p % VoicesPerCluster) + 1]

\* C37: after every flush_events, following any sequence of note_on,
\* note_off and note_free calls, the active voices occupy the stack
\* positions 0..len-1 with no note held twice, every Move goes from a
\* position that held a voice before the flush to a position vacated in this
\* flush, and no Activate targets a position held by another active voice.
C37_FlushConsistent ==
    (ioLast.op = "flush_events" /\ ~ io.panic) =>
       /\ DOMAIN io.voices = 1 .. Len(io.voices)
       /\ NoNoteTwice
       /\ MovesFillGaps
       /\ ActivateOwnPosition

\* C38: the number of active voices never exceeds the configured maximum
\* polyphony, the pending queues never grow past their capacity, and every
\* (cluster, lane) index emitted or used to index the per-cluster event
\* cache is within max_num_clusters and the lanes of a cluster.
C38_WithinBounds ==
    /\ Len(io.voices) <= MaxPolyphony
    /\ Len(io.add_pending) <= io.capacity
    /\ Len(io.free_pending) <= io.capacity
    /\ Len(io.deactivate_pending) <= io.capacity
    /\ ~ io.panic
    /\ \A e \in 1 .. Len(io.events) :
          IF io.events[e].type = "Move"
          THEN \A at \in {io.events[e].from, io.events[e].to} :
                  at[1] < max_num_clusters /\ at[2] < VoicesPerCluster
          ELSE io.events[e].cluster_idx < max_num_clusters

====
